---- MODULE Spec2Model ----
(***************************************************************************)
(* Local-first data core of the habit/todo tracker: the persistence        *)
(* engine (src/db/index.native.ts and its second native variant), the      *)
(* backup utilities, and the Todo and Habit stores.                        *)
(*                                                                         *)
(* The module holds several specifications over one set of variables; each *)
(* specification drives one subsystem and leaves the others untouched:     *)
(*   SpecDB       ensureDB / runWithRetry over the shared handle           *)
(*   SpecBackup   exportData / importData / restoreData over the tables    *)
(*   SpecStore    the Todo and Habit stores over the tables                *)
(***************************************************************************)
EXTENDS Integers, Sequences, FiniteSets, TLC

(***************************************************************************)
(* Bounds                                                                  *)
(***************************************************************************)
MaxProcs == 2
MaxInits == 3
MaxKills == 2
MaxDbOps == 3
MaxImports == 2
MaxSlots == 2
MaxStoreOps == 3
MaxNotifs == 3

VARIABLES
    db,          \* module-level `db`: 0 (null) or the handle it caches
    initPromise, \* module-level `initPromise`: 0 (null) or the id of an initialization
    inits,       \* state of every initialization ever started
    conn,        \* native state of the connection opened by each initialization
    procs,       \* position and bookkeeping of every runWithRetry call
    dbOps,       \* number of runWithRetry calls started so far
    variant,     \* which native engine is linked: "tx" (db/index.native.ts) or "plain" (its second variant)
    tables,      \* rows as seen through the shared connection: habits, logs, todos, cats
    tx,          \* open SQL transaction of the connection: [active, snap]
    exported,    \* the backup file last written by exportData: [present, from, file]
    imp,         \* importData / restoreData in progress
    lastRead,    \* what the latest reader got back from the get-all queries
    imports,     \* number of importData calls so far
    clock,       \* Date.now(): ids and timestamps of new rows
    todos,       \* useTodoStore: the cached todo list
    todosLoaded, \* useTodoStore: loaded
    notif,       \* the platform scheduler: [next, live, issued]
    ops,         \* store operations in progress, one per slot
    storeOps,    \* number of store operations started so far
    failed,      \* whether a durable read or write of a store operation has failed
    overlapped,  \* whether a store operation has started while another was in progress
    habits,      \* useHabitStore: the cached list of active habits
    habitsLoaded,\* useHabitStore: habitsLoaded
    curLogs,     \* useHabitStore: currentHabitLogs (detail view)
    curTotals,   \* useHabitStore: currentHabitDailyTotals (detail view)
    delivery,    \* the notification handed to handleNotification and what it returned
    stats        \* calculateHabitStats: its arguments, the device's day and zone, its result

dbVars == <<db, initPromise, inits, conn, procs, dbOps>>
backupVars == <<variant, tables, tx, exported, imp, lastRead, imports>>
\* of the backup variables the stores use `variant` and `tables`
idleBackupVars == <<tx, exported, imp, lastRead, imports>>
storeVars == <<clock, todos, todosLoaded, notif, ops, storeOps, failed, overlapped,
               habits, habitsLoaded, curLogs, curTotals>>
todoCache == <<todos, todosLoaded>>
habitCache == <<habits, habitsLoaded, curLogs, curTotals>>

vars == <<db, initPromise, inits, conn, procs, dbOps,
          variant, tables, tx, exported, imp, lastRead, imports,
          clock, todos, todosLoaded, notif, ops, storeOps, failed, overlapped,
          habits, habitsLoaded, curLogs, curTotals, delivery, stats>>

\* the variables each subsystem leaves alone
nonDbVars == <<backupVars, storeVars, delivery, stats>>
nonBackupVars == <<dbVars, storeVars, delivery, stats>>
nonStoreVars == <<dbVars, idleBackupVars, variant, delivery, stats>>
nonDeliveryVars == <<dbVars, backupVars, storeVars, stats>>
nonStatsVars == <<dbVars, backupVars, storeVars, delivery>>

(***************************************************************************)
(* Persistence engine: the connection singleton                            *)
(***************************************************************************)
NoHandle == 0
Procs == 1..MaxProcs
InitIds == 1..MaxInits

\* errors an awaited step can reject with
TransientErrors == {"closed", "nullptr"}
Errors == TransientErrors \cup {"other", "openfail"}

\* runWithRetry's test on the error text (NullPointerException / database is closed)
IsTransient_All(e) == TRUE
IsTransient(e) == e \in TransientErrors

InFlight == {i \in InitIds : inits[i] \in {"opening", "setup"}}
Resolved == {i \in InitIds : inits[i] = "resolved"}
FreshInit == CHOOSE i \in InitIds : inits[i] = "unused" /\ \A j \in InitIds : inits[j] = "unused" => i <= j

IdleProc == [pc |-> "idle", attempt |-> 0, h |-> NoHandle, wait |-> NoHandle,
             calls |-> 0, firstErr |-> "none", firstInvoked |-> FALSE,
             lastOutcome |-> "none", lastErr |-> "none", result |-> "none",
             resolvedAtReset |-> {}, reinitOk |-> FALSE]

\* runWithRetry's catch block, as a function of the call's record q at the
\* throw and the error e: a transient error of the first attempt resets the
\* singleton and sleeps 200 ms, anything else leaves runWithRetry.
Resets(q, e) == q.attempt = 1 /\ IsTransient(e)

CaughtRec(q, e) ==
    IF Resets(q, e)
    THEN [q EXCEPT !.pc = "sleep", !.firstErr = e, !.lastErr = e, !.lastOutcome = "fail",
                   !.h = NoHandle, !.wait = NoHandle, !.resolvedAtReset = Resolved]
    ELSE [q EXCEPT !.pc = "done", !.result = e,
                   !.firstErr = IF q.attempt = 1 THEN e ELSE q.firstErr,
                   !.lastErr = e, !.lastOutcome = "fail", !.h = NoHandle, !.wait = NoHandle]

\* `return await operation(database)` issued on handle h
InvokeRec(q, h) ==
    [q EXCEPT !.pc = "running", !.h = h, !.wait = NoHandle, !.calls = q.calls + 1,
              !.reinitOk = (q.attempt = 2)]

Waiters(i) == {p \in Procs : procs[p].pc = "awaitInit" /\ procs[p].wait = i}

\* openDatabaseAsync of initialization i resolves: the connection exists,
\* the schema setup statements follow.
InitOpened(i) ==
    /\ inits[i] = "opening"
    /\ inits' = [inits EXCEPT ![i] = "setup"]
    /\ conn' = [conn EXCEPT ![i] = "open"]
    /\ UNCHANGED <<db, initPromise, procs, dbOps>>
    /\ UNCHANGED nonDbVars

\* the rejection without the `finally` that clears the guard
InitOpenFails_KeepGuard(i) ==
    /\ inits[i] = "opening"
    /\ inits' = [inits EXCEPT ![i] = "rejected"]
    /\ db' = NoHandle
    /\ procs' = [p \in Procs |-> IF p \in Waiters(i) THEN CaughtRec(procs[p], "openfail") ELSE procs[p]]
    /\ UNCHANGED <<initPromise, conn, dbOps>>
    /\ UNCHANGED nonDbVars

\* openDatabaseAsync rejects: catch { db = null; throw } finally { initPromise = null };
\* the callers awaiting the promise resume in the same turn with the error.
InitOpenFails(i) ==
    /\ inits[i] = "opening"
    /\ inits' = [inits EXCEPT ![i] = "rejected"]
    /\ db' = NoHandle
    /\ initPromise' = NoHandle
    /\ procs' = [p \in Procs |-> IF p \in Waiters(i) THEN CaughtRec(procs[p], "openfail") ELSE procs[p]]
    /\ UNCHANGED <<conn, dbOps>>
    /\ UNCHANGED nonDbVars

\* the setup statements finish: `db = _db; return _db;` finally { initPromise = null },
\* and the callers awaiting the promise resume in the same turn and issue
\* their operation on the new handle. When the native connection died
\* meanwhile the first execAsync rejects instead and the callers catch it.
InitSetupDone(i) ==
    /\ inits[i] = "setup"
    /\ IF conn[i] = "open"
       THEN /\ inits' = [inits EXCEPT ![i] = "resolved"]
            /\ db' = i
            /\ procs' = [p \in Procs |-> IF p \in Waiters(i) THEN InvokeRec(procs[p], i) ELSE procs[p]]
       ELSE /\ inits' = [inits EXCEPT ![i] = "rejected"]
            /\ db' = NoHandle
            /\ procs' = [p \in Procs |-> IF p \in Waiters(i) THEN CaughtRec(procs[p], "nullptr") ELSE procs[p]]
    /\ initPromise' = NoHandle
    /\ UNCHANGED <<conn, dbOps>>
    /\ UNCHANGED nonDbVars

\* the native resource behind a handle is closed (hot reload, killed process part)
KillHandle(i) ==
    /\ conn[i] = "open"
    /\ Cardinality({j \in InitIds : conn[j] = "dead"}) < MaxKills
    /\ conn' = [conn EXCEPT ![i] = "dead"]
    /\ UNCHANGED <<db, initPromise, inits, procs, dbOps>>
    /\ UNCHANGED nonDbVars

\* ensureDB as called by process p whose record is q: the synchronous part up
\* to its first suspension.
EnsureDB(p, q) ==
    IF db # NoHandle
    THEN \* `if (db) return db;` the caller goes on to invoke the operation
         /\ procs' = [procs EXCEPT ![p] = InvokeRec(q, db)]
         /\ UNCHANGED <<db, initPromise, inits, conn>>
    ELSE IF initPromise # NoHandle
    THEN \* `if (initPromise) return initPromise;`
         /\ procs' = [procs EXCEPT ![p] = [q EXCEPT !.pc = "awaitInit", !.wait = initPromise]]
         /\ UNCHANGED <<db, initPromise, inits, conn>>
    ELSE \* start a new initialization; openDatabaseAsync is issued at once
         /\ \E i \in InitIds : inits[i] = "unused"
         /\ LET i == FreshInit IN
              /\ inits' = [inits EXCEPT ![i] = "opening"]
              /\ initPromise' = i
              /\ procs' = [procs EXCEPT ![p] = [q EXCEPT !.pc = "awaitInit", !.wait = i]]
         /\ UNCHANGED <<db, conn>>

\* a data operation enters runWithRetry
OpStart(p) ==
    /\ procs[p].pc = "idle"
    /\ dbOps < MaxDbOps
    /\ dbOps' = dbOps + 1
    /\ EnsureDB(p, [IdleProc EXCEPT !.attempt = 1])
    /\ UNCHANGED nonDbVars

\* the operation body resolves
OpSucceeds(p) ==
    /\ procs[p].pc = "running"
    /\ conn[procs[p].h] = "open"
    /\ procs' = [procs EXCEPT ![p] = [@ EXCEPT !.pc = "done", !.result = "ok",
                                              !.lastOutcome = "ok", !.h = NoHandle]]
    /\ UNCHANGED <<db, initPromise, inits, conn, dbOps>>
    /\ UNCHANGED nonDbVars

\* the operation body rejects: with a transient error when the native
\* connection is gone, with another error (constraint, disk) otherwise
OpFails(p) ==
    /\ procs[p].pc = "running"
    /\ \E e \in (IF conn[procs[p].h] = "open" THEN {"other"} ELSE TransientErrors) :
          LET q == [procs[p] EXCEPT !.firstInvoked = (procs[p].attempt = 1) \/ @] IN
            /\ procs' = [procs EXCEPT ![p] = CaughtRec(q, e)]
            /\ IF Resets(q, e)
               THEN db' = NoHandle /\ initPromise' = NoHandle
               ELSE UNCHANGED <<db, initPromise>>
    /\ UNCHANGED <<inits, conn, dbOps>>
    /\ UNCHANGED nonDbVars

\* the 200 ms timer fires: `const database = await ensureDB();` of the retry
RetryWake(p) ==
    /\ procs[p].pc = "sleep"
    /\ EnsureDB(p, [procs[p] EXCEPT !.attempt = 2])
    /\ UNCHANGED dbOps
    /\ UNCHANGED nonDbVars

\* the caller has taken the result; the process may issue another operation
OpReturn(p) ==
    /\ procs[p].pc = "done"
    /\ dbOps < MaxDbOps
    /\ procs' = [procs EXCEPT ![p] = IdleProc]
    /\ UNCHANGED <<db, initPromise, inits, conn, dbOps>>
    /\ UNCHANGED nonDbVars

DbAtRest ==
    /\ db = NoHandle
    /\ initPromise = NoHandle
    /\ inits = [i \in InitIds |-> "unused"]
    /\ conn = [i \in InitIds |-> "none"]
    /\ procs = [p \in Procs |-> IdleProc]
    /\ dbOps = 0

NextDB ==
    \/ \E p \in Procs : OpStart(p)
    \/ \E p \in Procs : OpSucceeds(p)
    \/ \E p \in Procs : OpFails(p)
    \/ \E p \in Procs : RetryWake(p)
    \/ \E p \in Procs : OpReturn(p)
    \/ \E i \in InitIds : InitOpened(i)
    \/ \E i \in InitIds : InitOpenFails(i)
    \/ \E i \in InitIds : InitSetupDone(i)
    \/ \E i \in InitIds : KillHandle(i)


(***************************************************************************)
(* Values.  Optional fields: `undefined` and `null` are one value, Absent. *)
(* Dates, times and scheduler ids are integers; 0 is Absent and -1 is the  *)
(* empty string '' (the scheduler's failure sentinel, a cleared reminder). *)
(* An array-valued column is a record [lvl, items]: lvl -1 is Absent,      *)
(* lvl 0 the array itself, lvl k > 0 its JSON text stringified k times.    *)
(***************************************************************************)
Absent == 0
EmptyStr == -1
NoValue == -1
Yesterday == 1
Today == 2
Tomorrow == 3

\* JavaScript truthiness of a scalar, and `x || null`
Truthy(x) == x \notin {Absent, EmptyStr}
OrNull(x) == IF Truthy(x) THEN x ELSE Absent
\* `value || null` on a log value: 0 and null both store NULL
ValueOrNull(v) == IF v = 0 \/ v = NoValue THEN NoValue ELSE v
\* `targetValue || 1`
TargetOrOne(v) == IF v = 0 THEN 1 ELSE v
\* `b ? 1 : 0` and `!!n`
BoolToInt(b) == IF b THEN 1 ELSE 0
IntToBool(n) == n # 0

NullArr == [lvl |-> -1, items |-> <<>>]
Arr(items) == [lvl |-> 0, items |-> items]
ArrTruthy(a) == a.lvl >= 0
JsonStringify(a) == [a EXCEPT !.lvl = @ + 1]
JsonParse(a) == [a EXCEPT !.lvl = @ - 1]
\* `x ? JSON.stringify(x) : null`
StringifyOrNull(a) == IF ArrTruthy(a) THEN JsonStringify(a) ELSE NullArr
\* `row.categories ? JSON.parse(row.categories) : (row.category ? [row.category] : [])`
\* (the legacy `category` column is never written by the stores)
ParseCategories(a) == IF ArrTruthy(a) THEN JsonParse(a) ELSE Arr(<<>>)

(***************************************************************************)
(* Persistence engine: row encodings of the two native variants            *)
(***************************************************************************)
Variants == {"tx", "plain"}

\* addHabit / restoreData INSERT INTO habits
EncHabit(h) ==
    [id |-> h.id, name |-> h.name, archived |-> BoolToInt(h.archived),
     targetValue |-> TargetOrOne(h.targetValue), reminderTime |-> OrNull(h.reminderTime),
     frequency |-> h.frequency,
     frequencyDays |-> StringifyOrNull(h.frequencyDays),
     notificationIds |-> StringifyOrNull(h.notificationIds)]

\* `row.x ? JSON.parse(row.x) : undefined`
ParseOrUndefined(a) == IF ArrTruthy(a) THEN JsonParse(a) ELSE NullArr

\* getHabits / getAllHabitsIncludingArchived row mapping
DecHabit(r) ==
    [r EXCEPT !.archived = IntToBool(r.archived),
              !.frequencyDays = ParseOrUndefined(r.frequencyDays),
              !.notificationIds = ParseOrUndefined(r.notificationIds)]

\* addHabitLog / restoreData INSERT INTO habit_logs
EncLog(l) == [l EXCEPT !.value = ValueOrNull(l.value)]

\* addTodo INSERT INTO todos; the "tx" variant has no autoPostpone column
EncTodo(t) ==
    [id |-> t.id, content |-> t.content, isCompleted |-> BoolToInt(t.isCompleted),
     dueDate |-> OrNull(t.dueDate), createdAt |-> t.createdAt,
     reminderTime |-> OrNull(t.reminderTime), notificationId |-> OrNull(t.notificationId),
     categories |-> StringifyOrNull(t.categories),
     autoPostpone |-> IF variant = "plain" THEN BoolToInt(t.autoPostpone) ELSE 0,
     completedAt |-> OrNull(t.completedAt)]

\* restoreData INSERT INTO todos: the "tx" variant's column list has no completedAt
EncTodoRestore(t) ==
    IF variant = "plain" THEN EncTodo(t) ELSE [EncTodo(t) EXCEPT !.completedAt = Absent]

\* getTodos row mapping
DecTodo(r) ==
    [r EXCEPT !.isCompleted = IntToBool(r.isCompleted),
              !.autoPostpone = IntToBool(r.autoPostpone),
              !.categories = ParseCategories(r.categories)]

\* getAllTodos row mapping: the "tx" variant leaves the categories column as text
DecTodoAll(r) ==
    IF variant = "plain" THEN DecTodo(r)
    ELSE [r EXCEPT !.isCompleted = IntToBool(r.isCompleted),
                   !.autoPostpone = IntToBool(r.autoPostpone)]

\* rows of a table in ascending id order
RECURSIVE SeqById(_)
SeqById(S) ==
    IF S = {} THEN <<>>
    ELSE LET r == CHOOSE x \in S : \A y \in S : x.id <= y.id
         IN <<r>> \o SeqById(S \ {r})

EmptyTables == [habits |-> {}, logs |-> {}, todos |-> {}, cats |-> {}]

\* what is on disk: inside a transaction the rows as of BEGIN
Durable == IF tx.active THEN tx.snap ELSE tables

\* the get-all queries as one reader issues them on the shared connection
ReadAll(T) ==
    [habits |-> {DecHabit(r) : r \in T.habits}, logs |-> T.logs,
     todos |-> {DecTodo(r) : r \in T.todos}, cats |-> T.cats]

(***************************************************************************)
(* Backup: exportData, importData, restoreData                             *)
(***************************************************************************)
\* objects as the stores create them, used to populate the tables
SampleHabits ==
    { [id |-> 1, name |-> "run", archived |-> FALSE, targetValue |-> 3, reminderTime |-> Absent,
       frequency |-> "daily", frequencyDays |-> Arr(<<>>), notificationIds |-> Arr(<<>>)],
      [id |-> 2, name |-> "read", archived |-> TRUE, targetValue |-> 1, reminderTime |-> 5,
       frequency |-> "weekly", frequencyDays |-> NullArr, notificationIds |-> NullArr] }
SampleLogs ==
    { [id |-> 11, habitId |-> 1, day |-> Today, value |-> 2],
      [id |-> 12, habitId |-> 1, day |-> Yesterday, value |-> 0] }
SampleTodos ==
    { [id |-> 21, content |-> "a", isCompleted |-> TRUE, dueDate |-> Yesterday, createdAt |-> 21,
       reminderTime |-> Absent, notificationId |-> Absent, categories |-> Arr(<<"work">>),
       autoPostpone |-> TRUE, completedAt |-> 22],
      [id |-> 23, content |-> "b", isCompleted |-> FALSE, dueDate |-> Absent, createdAt |-> 23,
       reminderTime |-> Absent, notificationId |-> Absent, categories |-> NullArr,
       autoPostpone |-> FALSE, completedAt |-> Absent] }
SampleCats == {"work"}

\* a backup file: how far JSON.parse and the shape test get with it, and its arrays
FileShapes == {"unparseable", "null", "nodata", "nohabits", "nologs", "ok"}
NoFile == [shape |-> "null", habits |-> <<>>, logs |-> <<>>, todos |-> <<>>]
ForeignFiles ==
    { [shape |-> sh, habits |-> <<>>, logs |-> <<>>, todos |-> <<>>] :
          sh \in {"unparseable", "null", "nodata", "nohabits"} }
    \cup { [shape |-> "nologs",
            habits |-> <<[id |-> 1, name |-> "run", archived |-> FALSE, targetValue |-> 3, reminderTime |-> Absent,
                          frequency |-> "daily", frequencyDays |-> Arr(<<>>), notificationIds |-> Arr(<<>>)]>>,
            logs |-> <<>>, todos |-> <<>>],
           [shape |-> "ok",
            habits |-> <<[id |-> 3, name |-> "swim", archived |-> FALSE, targetValue |-> 2, reminderTime |-> Absent,
                          frequency |-> "daily", frequencyDays |-> NullArr, notificationIds |-> NullArr]>>,
            logs |-> <<[id |-> 13, habitId |-> 3, day |-> Today, value |-> 1]>>,
            todos |-> <<>>] }

\* exportData: the three get-all queries and the file built from them
ExportFile(T) ==
    [shape |-> "ok",
     habits |-> SeqById({DecHabit(r) : r \in T.habits}),
     logs |-> SeqById(T.logs),
     todos |-> SeqById({DecTodoAll(r) : r \in T.todos})]

\* importData up to the confirmation dialog: JSON.parse, the shape test and
\* the dialog text, which reads habits.length and logs.length
Validate_NoLogsLength(f) ==
    CASE f.shape = "unparseable" -> "failed"
      [] f.shape \in {"null", "nodata", "nohabits"} -> "invalid"
      [] OTHER -> "confirm"
Validate(f) ==
    CASE f.shape = "unparseable" -> "failed"      \* JSON.parse throws, outer catch
      [] f.shape \in {"null", "nodata", "nohabits"} -> "invalid"  \* the shape test
      [] f.shape = "nologs" -> "failed"           \* logs.length throws a TypeError, outer catch
      [] OTHER -> "confirm"

\* the statements restoreData issues, in order
Stmts(f) ==
    IF variant = "tx"
    THEN <<[op |-> "begin"], [op |-> "delLogs"], [op |-> "delHabits"], [op |-> "delTodos"]>>
         \o [i \in 1..Len(f.habits) |-> [op |-> "insHabit", row |-> EncHabit(f.habits[i])]]
         \o [i \in 1..Len(f.logs) |-> [op |-> "insLog", row |-> EncLog(f.logs[i])]]
         \o [i \in 1..Len(f.todos) |-> [op |-> "insTodo", row |-> EncTodoRestore(f.todos[i])]]
         \o <<[op |-> "commit"]>>
    ELSE <<[op |-> "delHabits"], [op |-> "delLogs"], [op |-> "delTodos"], [op |-> "delCats"]>>
         \o [i \in 1..Len(f.habits) |-> [op |-> "insHabit", row |-> EncHabit(f.habits[i])]]
         \o [i \in 1..Len(f.logs) |-> [op |-> "insLog", row |-> EncLog(f.logs[i])]]
         \o [i \in 1..Len(f.todos) |-> [op |-> "insTodo", row |-> EncTodoRestore(f.todos[i])]]

\* an INSERT whose primary key is already in the table cannot succeed
CanRun(st, T) ==
    CASE st.op = "insHabit" -> \A r \in T.habits : r.id # st.row.id
      [] st.op = "insLog" -> \A r \in T.logs : r.id # st.row.id
      [] st.op = "insTodo" -> \A r \in T.todos : r.id # st.row.id
      [] OTHER -> TRUE

Run(st, T) ==
    CASE st.op = "delHabits" -> [T EXCEPT !.habits = {}]
      [] st.op = "delLogs" -> [T EXCEPT !.logs = {}]
      [] st.op = "delTodos" -> [T EXCEPT !.todos = {}]
      [] st.op = "delCats" -> [T EXCEPT !.cats = {}]
      [] st.op = "insHabit" -> [T EXCEPT !.habits = @ \cup {st.row}]
      [] st.op = "insLog" -> [T EXCEPT !.logs = @ \cup {st.row}]
      [] st.op = "insTodo" -> [T EXCEPT !.todos = @ \cup {st.row}]
      [] OTHER -> T

RECURSIVE RunAll(_, _)
RunAll(q, T) == IF q = <<>> THEN T ELSE RunAll(Tail(q), Run(Head(q), T))

IdleImp == [pc |-> "idle", file |-> NoFile, i |-> 0, pre |-> EmptyTables,
            restoreCalled |-> FALSE, fromExport |-> FALSE]
NoRead == [during |-> FALSE, data |-> EmptyTables]

\* exportData (idle store): writes the backup file
ExportData ==
    /\ imp.pc = "idle"
    /\ exported' = [present |-> TRUE, from |-> tables, file |-> ExportFile(tables)]
    /\ exported' # exported
    /\ UNCHANGED <<variant, tables, tx, imp, lastRead, imports>>
    /\ UNCHANGED nonBackupVars

\* importData: the user picks a file; it is read, parsed and tested
ImportPick ==
    /\ imp.pc = "idle"
    /\ imports < MaxImports
    /\ \E src \in {"export", "foreign"} :
         \E f \in (IF src = "export" THEN (IF exported.present THEN {exported.file} ELSE {}) ELSE ForeignFiles) :
            imp' = [pc |-> Validate(f), file |-> f, i |-> 0, pre |-> tables,
                    restoreCalled |-> FALSE, fromExport |-> (src = "export")]
    /\ imports' = imports + 1
    /\ lastRead' = NoRead
    /\ UNCHANGED <<variant, tables, tx, exported>>
    /\ UNCHANGED nonBackupVars

\* the alert after a rejected file is dismissed, or the dialog is cancelled
ImportDismiss ==
    /\ imp.pc \in {"failed", "invalid", "confirm", "restored", "restoreFailed"}
    /\ imp' = IdleImp
    /\ lastRead' = NoRead
    /\ UNCHANGED <<variant, tables, tx, exported, imports>>
    /\ UNCHANGED nonBackupVars

\* the user confirms: restoreData(habits, logs, todos || []) is called
ImportConfirm ==
    /\ imp.pc = "confirm"
    /\ imp' = [imp EXCEPT !.pc = "restoring", !.i = 1, !.restoreCalled = TRUE]
    /\ UNCHANGED <<variant, tables, tx, exported, lastRead, imports>>
    /\ UNCHANGED nonBackupVars

\* the next statement of restoreData succeeds
RestoreStep ==
    /\ imp.pc = "restoring"
    /\ imp.i <= Len(Stmts(imp.file))
    /\ LET st == Stmts(imp.file)[imp.i] IN
         /\ CanRun(st, tables)
         /\ tables' = Run(st, tables)
         /\ tx' = CASE st.op = "begin" -> [active |-> TRUE, snap |-> tables]
                    [] st.op = "commit" -> [active |-> FALSE, snap |-> EmptyTables]
                    [] OTHER -> tx
    /\ imp' = [imp EXCEPT !.i = @ + 1,
                          !.pc = IF imp.i = Len(Stmts(imp.file)) THEN "restored" ELSE "restoring"]
    /\ UNCHANGED <<variant, exported, lastRead, imports>>
    /\ UNCHANGED nonBackupVars

\* the next statement rejects (constraint violation, disk error): the "tx"
\* variant goes on to ROLLBACK, the "plain" variant just throws
RestoreStepFails ==
    /\ imp.pc = "restoring"
    /\ imp.i <= Len(Stmts(imp.file))
    /\ imp' = [imp EXCEPT !.pc = IF tx.active THEN "rollback" ELSE "restoreFailed"]
    /\ UNCHANGED <<variant, tables, tx, exported, lastRead, imports>>
    /\ UNCHANGED nonBackupVars

\* `await database.execAsync('ROLLBACK'); throw error;`
RestoreRollback ==
    /\ imp.pc = "rollback"
    /\ tables' = tx.snap
    /\ tx' = [active |-> FALSE, snap |-> EmptyTables]
    /\ imp' = [imp EXCEPT !.pc = "restoreFailed"]
    /\ UNCHANGED <<variant, exported, lastRead, imports>>
    /\ UNCHANGED nonBackupVars

\* another caller (a screen, the widget) runs the get-all queries on the
\* shared connection between two statements of restoreData
ReaderGet ==
    /\ imp.pc \in {"restoring", "rollback", "restored", "restoreFailed"}
    /\ lastRead' = [during |-> imp.pc \in {"restoring", "rollback"}, data |-> ReadAll(tables)]
    /\ lastRead' # lastRead
    /\ UNCHANGED <<variant, tables, tx, exported, imp, imports>>
    /\ UNCHANGED nonBackupVars

\* no backup activity: an empty store
BackupAtRest ==
    /\ variant = "tx"
    /\ tables = EmptyTables
    /\ tx = [active |-> FALSE, snap |-> EmptyTables]
    /\ exported = [present |-> FALSE, from |-> EmptyTables, file |-> NoFile]
    /\ imp = IdleImp
    /\ lastRead = NoRead
    /\ imports = 0

\* a store holding rows the stores have written earlier
BackupStart ==
    /\ variant \in Variants
    /\ tables \in [habits : SUBSET {EncHabit(h) : h \in SampleHabits},
                   logs : SUBSET {EncLog(l) : l \in SampleLogs},
                   todos : SUBSET {EncTodo(t) : t \in SampleTodos},
                   cats : SUBSET SampleCats]
    /\ tx = [active |-> FALSE, snap |-> EmptyTables]
    /\ exported = [present |-> FALSE, from |-> EmptyTables, file |-> NoFile]
    /\ imp = IdleImp
    /\ lastRead = NoRead
    /\ imports = 0

NextBackup ==
    \/ ExportData
    \/ ImportPick
    \/ ImportDismiss
    \/ ImportConfirm
    \/ RestoreStep
    \/ RestoreStepFails
    \/ RestoreRollback
    \/ ReaderGet

(***************************************************************************)
(* Claims on backup and restore                                            *)
(***************************************************************************)
\* the tables a complete restore of the picked file leaves
RestoreTarget == RunAll(Stmts(imp.file), imp.pre)

\* C3: restoreData is all-or-nothing: after a failed restore the durable
\* tables equal their contents before it started, and a reader during the
\* restore sees either the old rows or the complete new rows.
C3_RestoreAllOrNothing ==
    /\ imp.pc = "restoreFailed" => Durable = imp.pre
    /\ lastRead.during => lastRead.data \in {ReadAll(imp.pre), ReadAll(RestoreTarget)}

\* C4: exporting a store and importing that backup into the untouched store
\* leaves the same habits, logs, todos and categories, field by field.
C4_ExportImportRoundTrip ==
    imp.pc = "restored" /\ imp.fromExport /\ imp.pre = exported.from
        => ReadAll(tables) = ReadAll(exported.from)

\* C5: a malformed backup (unparseable or empty content, no data, no
\* data.habits, data.habits without data.logs) never reaches restoreData and
\* leaves the tables as they were.
C5_MalformedBackupRejected ==
    imp.pc # "idle" /\ imp.file.shape # "ok" =>
        /\ imp.pc \in {"failed", "invalid"}
        /\ ~imp.restoreCalled
        /\ tables = imp.pre

\* a backup with data.habits but no data.logs was picked over a non-empty store
C5_Witness ==
    /\ imp.file.shape = "nologs"
    /\ imp.pc = "failed"
    /\ tables.habits # {} /\ tables.todos # {}

(***************************************************************************)
(* Claims on the connection singleton                                      *)
(***************************************************************************)
Done(p) == procs[p].pc = "done"

\* C1: while an initialization is in flight every ensureDB caller shares it:
\* at most one initialization is opening the database at any time, and none
\* is in flight while the cached handle holds a connection.
C1_SingleInitialization ==
    /\ Cardinality(InFlight) <= 1
    /\ \A i \in InFlight : db = NoHandle

\* C2 as stated: the body runs at most twice and runs a second time exactly
\* when the first attempt failed with a transient error; the caller sees
\* success when the last invocation succeeded and otherwise the error raised.
C2_RetryExactlyOnTransient ==
    \A p \in Procs : Done(p) =>
        /\ procs[p].calls <= 2
        /\ (procs[p].calls = 2) <=> (procs[p].firstErr \in TransientErrors)
        /\ (procs[p].result = "ok") <=> (procs[p].lastOutcome = "ok")
        /\ procs[p].result # "ok" => procs[p].result = procs[p].lastErr

\* C2 amended: the body runs at most twice; it runs a second time exactly
\* when its first invocation failed with a transient error and the
\* re-initialization after the reset succeeded, and then on a handle whose
\* initialization completed after the cached handle was dropped; a
\* non-transient error, a failed re-initialization or a failed retry reaches
\* the caller as that same error, with no further retry.
C2_RetryOnceAfterReinit ==
    \A p \in Procs :
        /\ procs[p].calls <= 2
        /\ procs[p].attempt <= 2
        /\ procs[p].pc = "running" /\ procs[p].attempt = 2 =>
              /\ procs[p].firstErr \in TransientErrors
              /\ inits[procs[p].h] = "resolved"
              /\ procs[p].h \notin procs[p].resolvedAtReset
        /\ Done(p) =>
              /\ (procs[p].calls = 2) <=>
                    (procs[p].firstInvoked /\ procs[p].firstErr \in TransientErrors /\ procs[p].reinitOk)
              /\ procs[p].attempt = 2 <=> procs[p].firstErr \in TransientErrors
              /\ (procs[p].result = "ok") <=> (procs[p].lastOutcome = "ok")
              /\ procs[p].result # "ok" => procs[p].result = procs[p].lastErr
              /\ procs[p].attempt = 1 /\ procs[p].result # "ok" => procs[p].result = procs[p].firstErr

\* a retried operation whose second invocation succeeded
C2_Witness ==
    \E p \in Procs : Done(p) /\ procs[p].calls = 2 /\ procs[p].result = "ok"
                     /\ procs[p].firstErr = "closed"

\* one data operation per process: the initializations they start and share
NextInit ==
    \/ \E p \in Procs : OpStart(p)
    \/ \E p \in Procs : OpSucceeds(p)
    \/ \E p \in Procs : OpFails(p)
    \/ \E p \in Procs : RetryWake(p)
    \/ \E i \in InitIds : InitOpened(i)
    \/ \E i \in InitIds : InitOpenFails(i)
    \/ \E i \in InitIds : InitSetupDone(i)
    \/ \E i \in InitIds : KillHandle(i)

\* C29: when an initialization rejects, the cached handle and the pending
\* guard are both empty, and every caller that awaited it has caught its
\* error; a rejected initialization is never the cached handle; and an
\* ensureDB that finds handle and guard empty starts an initialization that
\* was not started before and makes it the guard
C29_FailedInitNotCached ==
    [][/\ \A i \in InFlight :
            inits'[i] = "rejected" =>
                /\ db' = NoHandle /\ initPromise' = NoHandle
                /\ \A p \in Waiters(i) :
                      /\ procs'[p].pc \in {"done", "sleep"}
                      /\ procs'[p].lastOutcome = "fail"
                      /\ procs'[p].lastErr \in {"openfail", "nullptr"}
       /\ \A i \in InitIds : inits'[i] = "rejected" => db' # i /\ initPromise' # i
       /\ \A p \in Procs :
            (/\ procs[p].pc \in {"idle", "sleep"} /\ procs'[p].pc \notin {"idle", "sleep"}
             /\ db = NoHandle /\ initPromise = NoHandle) =>
                /\ procs'[p].pc = "awaitInit"
                /\ inits[procs'[p].wait] = "unused" /\ inits'[procs'[p].wait] = "opening"
                /\ initPromise' = procs'[p].wait]_vars

\* an initialization has rejected, a caller holds its error, and a later
\* initialization is in flight as the guard
C29_Witness ==
    \E i, j \in InitIds :
        /\ i < j /\ inits[i] = "rejected" /\ inits[j] = "opening" /\ initPromise = j
        /\ \E p \in Procs : procs[p].pc = "done" /\ procs[p].result = "openfail"

(***************************************************************************)
(* Stores: the durable operations they call (db/index.native.ts and its    *)
(* second variant), as functions of the tables                             *)
(***************************************************************************)
\* rows in descending createdAt order (ORDER BY createdAt DESC)
RECURSIVE SeqByCreatedDesc(_)
SeqByCreatedDesc(S) ==
    IF S = {} THEN <<>>
    ELSE LET r == CHOOSE x \in S : \A y \in S :
                      x.createdAt > y.createdAt \/ (x.createdAt = y.createdAt /\ x.id <= y.id)
         IN <<r>> \o SeqByCreatedDesc(S \ {r})

DbGetTodos(T) == SeqByCreatedDesc({DecTodo(r) : r \in T.todos})

DbAddTodo(T, t) == [T EXCEPT !.todos = @ \cup {EncTodo(t)}]

\* UPDATE todos SET ...: the "tx" variant also writes createdAt, the "plain"
\* variant leaves createdAt alone and writes autoPostpone
UpdatedTodoRow(r, t) ==
    IF variant = "tx" THEN EncTodo(t) ELSE [EncTodo(t) EXCEPT !.createdAt = r.createdAt]

DbUpdateTodo(T, t) ==
    [T EXCEPT !.todos = {IF r.id = t.id THEN UpdatedTodoRow(r, t) ELSE r : r \in @}]

DbToggleTodo(T, id, isCompleted, completedAt) ==
    [T EXCEPT !.todos = {IF r.id = id
                         THEN [r EXCEPT !.isCompleted = BoolToInt(isCompleted),
                                        !.completedAt = OrNull(completedAt)]
                         ELSE r : r \in @}]

DbDeleteTodo(T, id) == [T EXCEPT !.todos = {r \in @ : r.id # id}]

RECURSIVE DbUpdateTodos(_, _)
DbUpdateTodos(T, us) ==
    IF us = <<>> THEN T ELSE DbUpdateTodos(DbUpdateTodo(T, Head(us)), Tail(us))

(***************************************************************************)
(* Stores: shared machinery.  A slot holds one asynchronous store call     *)
(* from its first statement to its last continuation.                      *)
(***************************************************************************)
Slots == 1..MaxSlots
Days == {Yesterday, Today}
FirstClock == 31

NoTodo == [id |-> 0, content |-> "", isCompleted |-> FALSE, dueDate |-> Absent, createdAt |-> 0,
           reminderTime |-> Absent, notificationId |-> Absent, categories |-> NullArr,
           autoPostpone |-> FALSE, completedAt |-> Absent]
NoHabit == [id |-> 0, name |-> "", archived |-> FALSE, targetValue |-> 0, reminderTime |-> Absent,
            frequency |-> "daily", frequencyDays |-> NullArr, notificationIds |-> NullArr]
NoLog == [id |-> 0, habitId |-> 0, day |-> Today, value |-> 0]
NoTotals == [d \in Days |-> [totalValue |-> 0, count |-> 0]]
\* the scheduler before anything was scheduled: next is the id it issues next, live
\* the ids scheduled and not cancelled, issued what was scheduled for habits
NoNotifs == [next |-> 1, live |-> {}, issued |-> {}]

\* kind, pc: the call and its position; todo, old, habit, hlist, log: its locals;
\* alone: no other call has been in progress since this one started;
\* solo: the same, but for deferred refetches of calls that had returned;
\* warm: the todo list was loaded when the call started;
\* before: the cache it works on as it was when the call started;
\* req, known, target, dayTotal: for logHabit, the requested value and what
\* storage held for the habit when the call started; persisted: the value written;
\* left, plan: for a habit call, the reminder ids it still has to cancel and the
\* reminders it still has to schedule; changed: updateHabit found the reminder time
\* changed; oldIds: the ids the habit held when the call read it; events: the
\* calls it has made to the scheduler and to storage, in order
IdleOp == [kind |-> "none", pc |-> "idle", alone |-> TRUE, solo |-> TRUE, warm |-> FALSE,
           wrote |-> FALSE, exact |-> TRUE,
           todo |-> NoTodo, old |-> NoTodo, before |-> <<>>,
           habit |-> NoHabit, hlist |-> <<>>,
           log |-> NoLog, oldLog |-> NoLog, req |-> 0, dayTotal |-> 0, target |-> 0, known |-> FALSE,
           persisted |-> 0,
           left |-> <<>>, plan |-> <<>>, changed |-> FALSE, oldIds |-> <<>>, events |-> <<>>]

Terminal == {"idle", "done", "threw", "rejected"}
Busy(s) == ops[s].pc \notin Terminal
Quiescent == \A s \in Slots : ~Busy(s)

\* a call that has returned or thrown: its locals are gone; what stays is how
\* it ended, whether its durable write resolved, and whether the cache then
\* equalled the snapshot taken when the call started
Ended(op, pc, cacheNow) ==
    [IdleOp EXCEPT !.kind = op.kind, !.pc = pc, !.alone = op.alone, !.solo = op.solo, !.warm = op.warm,
                   !.wrote = op.wrote,
                   !.exact = (cacheNow = op.before),
                   !.req = op.req, !.dayTotal = op.dayTotal, !.target = op.target,
                   !.known = op.known, !.persisted = op.persisted,
                   !.changed = op.changed, !.oldIds = op.oldIds, !.events = op.events]

\* a call starts in the lowest free slot
CanBegin(s) ==
    /\ ~Busy(s)
    /\ \A u \in Slots : u < s => Busy(u)
    /\ storeOps < MaxStoreOps

Begin(s, op) ==
    /\ ops' = [u \in Slots |->
                 IF u = s THEN [op EXCEPT !.warm = todosLoaded,
                                          !.alone = \A v \in Slots \ {s} : ~Busy(v),
                                          !.solo = \A v \in Slots \ {s} : ~Busy(v) \/ ops[v].pc = "deferred"]
                 ELSE IF Busy(u) THEN [ops[u] EXCEPT !.alone = FALSE, !.solo = FALSE]
                 ELSE ops[u]]
    /\ storeOps' = storeOps + 1
    /\ overlapped' = (overlapped \/ \E v \in Slots \ {s} : Busy(v))

HasId(list, id) == \E i \in 1..Len(list) : list[i].id = id
\* Array.prototype.find by id
FindById(list, id) == list[CHOOSE i \in 1..Len(list) : list[i].id = id /\ \A j \in 1..(i - 1) : list[j].id # id]
\* list.map(t => t.id === id ? x : t) and list.filter(t => t.id !== id)
MapById(list, id, x) == [i \in 1..Len(list) |-> IF list[i].id = id THEN x ELSE list[i]]
RECURSIVE FilterById(_, _)
FilterById(list, id) ==
    IF list = <<>> THEN <<>>
    ELSE IF Head(list).id = id THEN FilterById(Tail(list), id)
    ELSE <<Head(list)>> \o FilterById(Tail(list), id)
IdsOf(list) == {list[i].id : i \in 1..Len(list)}

(***************************************************************************)
(* Todo store (store/useTodoStore.ts)                                      *)
(***************************************************************************)
TodoKinds == {"addTodo", "updateTodo", "toggleTodo", "deleteTodo"}
notTodoVars == <<habits, habitsLoaded, curLogs, curTotals>>

\* what the edit form passes to addTodo and, spread over the edited todo, to updateTodo
TodoInputs ==
    { [content |-> "a", dueDate |-> Absent, reminderTime |-> Absent, autoPostpone |-> FALSE],
      [content |-> "b", dueDate |-> Yesterday, reminderTime |-> Absent, autoPostpone |-> TRUE],
      [content |-> "a", dueDate |-> Absent, reminderTime |-> Tomorrow, autoPostpone |-> FALSE] }

\* fetchTodos: the auto-postpone rule
NeedsPostpone(t) ==
    ~t.isCompleted /\ t.autoPostpone /\ Truthy(t.dueDate) /\ t.dueDate < Today
Postponed(t) == IF NeedsPostpone(t) THEN [t EXCEPT !.dueDate = Today] ELSE t
PostponeUpdates(list) ==
    LET due == SelectSeq(list, NeedsPostpone) IN [i \in 1..Len(due) |-> Postponed(due[i])]

ReminderChanged(op) == op.old.reminderTime # op.todo.reminderTime

\* whether the call awaits the notification service before its optimistic set
NeedsNotify(op) ==
    CASE op.kind = "addTodo" -> Truthy(op.todo.reminderTime)
      [] op.kind = "updateTodo" ->
            IF ReminderChanged(op)
            THEN Truthy(op.old.notificationId) \/ Truthy(op.todo.reminderTime)
            ELSE /\ op.todo.content # op.old.content
                 /\ Truthy(op.todo.notificationId)
                 /\ Truthy(op.todo.reminderTime)
                 /\ op.todo.reminderTime > Today
      [] op.kind = "toggleTodo" -> op.todo.isCompleted /\ Truthy(op.old.notificationId)
      [] OTHER -> Truthy(op.old.notificationId)

\* the ids it cancels, whether it schedules, and its notificationId when it does not
Cancels(op) ==
    CASE op.kind = "addTodo" -> {}
      [] op.kind = "updateTodo" ->
            IF ReminderChanged(op)
            THEN (IF Truthy(op.old.notificationId) THEN {op.old.notificationId} ELSE {})
            ELSE {op.todo.notificationId}
      [] OTHER -> {op.old.notificationId}
Schedules(op) ==
    CASE op.kind = "addTodo" -> TRUE
      [] op.kind = "updateTodo" -> ReminderChanged(op) => Truthy(op.todo.reminderTime)
      [] OTHER -> FALSE
\* the id kept when no new reminder is scheduled
BaseNid_KeepId(op) ==
    CASE op.kind = "addTodo" -> Absent
      [] op.kind = "updateTodo" -> op.todo.notificationId
      [] OTHER -> op.old.notificationId
BaseNid(op) ==
    CASE op.kind = "addTodo" -> Absent
      [] op.kind = "updateTodo" ->
            IF ReminderChanged(op) /\ Truthy(op.old.notificationId) THEN Absent
            ELSE op.todo.notificationId
      [] OTHER -> op.old.notificationId

\* the value the call is about to set and write, built after its awaits
Applied(op, nid) ==
    CASE op.kind = "addTodo" ->
            [op EXCEPT !.pc = "writing",
                       !.todo = [@ EXCEPT !.id = clock, !.createdAt = clock, !.notificationId = nid]]
      [] op.kind = "updateTodo" ->
            [op EXCEPT !.pc = "writing", !.todo = [@ EXCEPT !.notificationId = nid]]
      [] op.kind = "toggleTodo" ->
            [op EXCEPT !.pc = "writing",
                       !.todo = [op.old EXCEPT !.isCompleted = op.todo.isCompleted,
                                               !.completedAt = IF op.todo.isCompleted THEN clock ELSE Absent]]
      [] OTHER -> [op EXCEPT !.pc = "writing"]

\* the optimistic set
ApplyTodoOp(op, list) ==
    CASE op.kind = "addTodo" -> <<op.todo>> \o list
      [] op.kind = "deleteTodo" -> FilterById(list, op.old.id)
      [] OTHER -> MapById(list, op.todo.id, op.todo)

\* the set of the catch block
RollbackTodoOp(op, list) ==
    CASE op.kind = "addTodo" -> FilterById(list, op.todo.id)
      [] op.kind = "deleteTodo" -> Append(list, op.old)
      [] OTHER -> MapById(list, op.old.id, op.old)

\* the durable write
DbTodoWrite(op, T) ==
    CASE op.kind = "addTodo" -> DbAddTodo(T, op.todo)
      [] op.kind = "updateTodo" -> DbUpdateTodo(T, op.todo)
      [] op.kind = "toggleTodo" -> DbToggleTodo(T, op.todo.id, op.todo.isCompleted, op.todo.completedAt)
      [] OTHER -> DbDeleteTodo(T, op.old.id)

\* the synchronous start of a todo mutation, up to its first await
StartTodoOp(s, op) ==
    IF NeedsNotify(op)
    THEN /\ Begin(s, [op EXCEPT !.pc = "notify"])
         /\ UNCHANGED <<clock, todos>>
    ELSE LET ap == Applied(op, BaseNid(op)) IN
         /\ Begin(s, ap)
         /\ todos' = ApplyTodoOp(ap, todos)
         /\ clock' = IF op.kind = "addTodo" THEN clock + 1 ELSE clock

KnownTodoIds == IdsOf(todos) \cup {r.id : r \in tables.todos}

AddTodo(s, in) ==
    /\ CanBegin(s)
    /\ StartTodoOp(s, [IdleOp EXCEPT !.kind = "addTodo", !.before = todos,
                          !.todo = [NoTodo EXCEPT !.content = in.content, !.dueDate = in.dueDate,
                                                  !.reminderTime = in.reminderTime,
                                                  !.categories = Arr(<<"work">>),
                                                  !.autoPostpone = in.autoPostpone]])
    /\ UNCHANGED <<tables, todosLoaded, notif, failed>>
    /\ UNCHANGED notTodoVars
    /\ UNCHANGED nonStoreVars

UpdateTodo(s, id, in) ==
    /\ CanBegin(s)
    /\ IF HasId(todos, id)
       THEN LET o == FindById(todos, id) IN
            StartTodoOp(s, [IdleOp EXCEPT !.kind = "updateTodo", !.before = todos, !.old = o,
                               !.todo = [o EXCEPT !.content = in.content, !.dueDate = in.dueDate,
                                                  !.reminderTime = in.reminderTime,
                                                  !.autoPostpone = in.autoPostpone]])
       ELSE /\ Begin(s, [IdleOp EXCEPT !.kind = "updateTodo", !.pc = "done"])
            /\ UNCHANGED <<clock, todos>>
    /\ UNCHANGED <<tables, todosLoaded, notif, failed>>
    /\ UNCHANGED notTodoVars
    /\ UNCHANGED nonStoreVars

ToggleTodo(s, id, isCompleted) ==
    /\ CanBegin(s)
    /\ IF HasId(todos, id)
       THEN LET o == FindById(todos, id) IN
            StartTodoOp(s, [IdleOp EXCEPT !.kind = "toggleTodo", !.before = todos, !.old = o,
                               !.todo = [o EXCEPT !.isCompleted = isCompleted]])
       ELSE /\ Begin(s, [IdleOp EXCEPT !.kind = "toggleTodo", !.pc = "done"])
            /\ UNCHANGED <<clock, todos>>
    /\ UNCHANGED <<tables, todosLoaded, notif, failed>>
    /\ UNCHANGED notTodoVars
    /\ UNCHANGED nonStoreVars

DeleteTodo(s, id) ==
    /\ CanBegin(s)
    /\ IF HasId(todos, id)
       THEN LET o == FindById(todos, id) IN
            StartTodoOp(s, [IdleOp EXCEPT !.kind = "deleteTodo", !.before = todos, !.old = o, !.todo = o])
       ELSE /\ Begin(s, [IdleOp EXCEPT !.kind = "deleteTodo", !.pc = "done"])
            /\ UNCHANGED <<clock, todos>>
    /\ UNCHANGED <<tables, todosLoaded, notif, failed>>
    /\ UNCHANGED notTodoVars
    /\ UNCHANGED nonStoreVars

\* the awaits of the notification service return: cancelNotification never
\* throws, scheduleNotification returns a new id or '' ; then the optimistic set
TodoNotifyDone(s) ==
    /\ ops[s].pc = "notify"
    /\ ops[s].kind \in TodoKinds
    /\ \E ok \in BOOLEAN :
         LET op == ops[s]
             sch == Schedules(op)
             nid == IF sch THEN (IF ok THEN notif.next ELSE EmptyStr) ELSE BaseNid(op)
             ap == Applied(op, nid)
         IN /\ ok \/ sch
            /\ (sch /\ ok) => notif.next <= MaxNotifs
            /\ notif' = [notif EXCEPT
                           !.next = IF sch /\ ok THEN notif.next + 1 ELSE notif.next,
                           !.live = (notif.live \ Cancels(op)) \cup (IF sch /\ ok THEN {notif.next} ELSE {})]
            /\ ops' = [ops EXCEPT ![s] = ap]
            /\ todos' = ApplyTodoOp(ap, todos)
            /\ clock' = IF op.kind = "addTodo" THEN clock + 1 ELSE clock
    /\ UNCHANGED <<tables, todosLoaded, storeOps, failed, overlapped>>
    /\ UNCHANGED notTodoVars
    /\ UNCHANGED nonStoreVars

\* the durable write resolves
TodoWriteOk(s) ==
    /\ ops[s].pc = "writing"
    /\ ops[s].kind \in TodoKinds
    /\ tables' = DbTodoWrite(ops[s], tables)
    /\ ops' = [ops EXCEPT ![s] = Ended([ops[s] EXCEPT !.wrote = TRUE], "done", todos)]
    /\ UNCHANGED <<clock, todos, todosLoaded, notif, storeOps, failed, overlapped>>
    /\ UNCHANGED notTodoVars
    /\ UNCHANGED nonStoreVars

\* the durable write rejects: the catch block; deleteTodo then awaits fetchTodos(true)
TodoWriteFail(s) ==
    /\ ops[s].pc = "writing"
    /\ ops[s].kind \in TodoKinds
    /\ todos' = RollbackTodoOp(ops[s], todos)
    /\ ops' = [ops EXCEPT ![s] = IF ops[s].kind = "deleteTodo"
                                 THEN [ops[s] EXCEPT !.pc = "fetching"]
                                 ELSE Ended(ops[s], "threw", todos')]
    /\ failed' = TRUE
    /\ UNCHANGED <<clock, tables, todosLoaded, notif, storeOps, overlapped>>
    /\ UNCHANGED notTodoVars
    /\ UNCHANGED nonStoreVars

\* fetchTodos without the `!force` of its guard
FetchTodos_IgnoreForce(s, force) ==
    /\ CanBegin(s)
    /\ Begin(s, [IdleOp EXCEPT !.kind = "fetchTodos", !.before = todos,
                               !.pc = IF todosLoaded THEN "done" ELSE "fetching"])
    /\ UNCHANGED <<clock, tables, todos, todosLoaded, notif, failed>>
    /\ UNCHANGED notTodoVars
    /\ UNCHANGED nonStoreVars

\* fetchTodos(force)
FetchTodos(s, force) ==
    /\ CanBegin(s)
    /\ Begin(s, [IdleOp EXCEPT !.kind = "fetchTodos", !.before = todos,
                               !.pc = IF todosLoaded /\ ~force THEN "done" ELSE "fetching"])
    /\ UNCHANGED <<clock, tables, todos, todosLoaded, notif, failed>>
    /\ UNCHANGED notTodoVars
    /\ UNCHANGED nonStoreVars

FetchKinds == {"fetchTodos", "deleteTodo"}
FetchEnd(op) == IF op.kind = "deleteTodo" THEN "threw" ELSE "done"

\* DB.getTodos resolves: the postponed todos are written back and the list is set
FetchTodosDone(s) ==
    /\ ops[s].pc = "fetching"
    /\ ops[s].kind \in FetchKinds
    /\ LET list == DbGetTodos(tables) IN
         /\ tables' = DbUpdateTodos(tables, PostponeUpdates(list))
         /\ todos' = [i \in 1..Len(list) |-> Postponed(list[i])]
    /\ todosLoaded' = TRUE
    /\ ops' = [ops EXCEPT ![s] = Ended(ops[s], FetchEnd(ops[s]), todos')]
    /\ UNCHANGED <<clock, notif, storeOps, failed, overlapped>>
    /\ UNCHANGED notTodoVars
    /\ UNCHANGED nonStoreVars

\* DB.getTodos rejects: the catch block leaves the list alone
FetchTodosFail(s) ==
    /\ ops[s].pc = "fetching"
    /\ ops[s].kind \in FetchKinds
    /\ ops' = [ops EXCEPT ![s] = Ended(ops[s], FetchEnd(ops[s]), todos)]
    /\ failed' = TRUE
    /\ UNCHANGED <<clock, tables, todos, todosLoaded, notif, storeOps, overlapped>>
    /\ UNCHANGED notTodoVars
    /\ UNCHANGED nonStoreVars

\* the edit form's inputs with a reminder: the same reminder under two contents
ReminderInputs ==
    TodoInputs \cup {[content |-> "b", dueDate |-> Absent, reminderTime |-> Tomorrow,
                      autoPostpone |-> FALSE]}

\* updateTodo and toggleTodo on the loaded list, calls overlapping
NextTodoReminders ==
    \/ \E s \in Slots, force \in BOOLEAN : FetchTodos(s, force)
    \/ \E s \in Slots : FetchTodosDone(s)
    \/ \E s \in Slots : FetchTodosFail(s)
    \/ \E s \in Slots, id \in KnownTodoIds, in \in ReminderInputs : UpdateTodo(s, id, in)
    \/ \E s \in Slots, id \in KnownTodoIds, b \in BOOLEAN : ToggleTodo(s, id, b)
    \/ \E s \in Slots : TodoNotifyDone(s)
    \/ \E s \in Slots : TodoWriteOk(s)
    \/ \E s \in Slots : TodoWriteFail(s)

(***************************************************************************)
(* Home-screen widget (widgetTaskHandler, TOGGLE_TODO): it works on        *)
(* storage only and catches every error                                    *)
(***************************************************************************)
\* the click on a todo of the widget, up to `await DB.getTodos()`
WidgetToggleTodo(s, id) ==
    /\ CanBegin(s)
    /\ Begin(s, [IdleOp EXCEPT !.kind = "widgetToggle", !.pc = "widgetRead", !.before = todos,
                               !.todo = [NoTodo EXCEPT !.id = id]])
    /\ UNCHANGED <<clock, tables, failed>>
    /\ UNCHANGED todoCache
    /\ UNCHANGED notTodoVars
    /\ UNCHANGED <<notif>>
    /\ UNCHANGED nonStoreVars

\* DB.getTodos resolves: `newStatus = !todo.isCompleted`, or nothing to do
WidgetRead(s) ==
    /\ ops[s].pc = "widgetRead"
    /\ LET list == DbGetTodos(tables)
           id == ops[s].todo.id
       IN ops' = [ops EXCEPT ![s] =
                    IF HasId(list, id)
                    THEN [@ EXCEPT !.pc = "widgetWrite",
                                   !.todo.isCompleted = ~FindById(list, id).isCompleted]
                    ELSE Ended(@, "done", todos)]
    /\ UNCHANGED <<clock, tables, storeOps, failed, overlapped>>
    /\ UNCHANGED todoCache
    /\ UNCHANGED notTodoVars
    /\ UNCHANGED <<notif>>
    /\ UNCHANGED nonStoreVars

\* `await DB.toggleTodo(todoId, newStatus)` resolves: no completedAt is passed
WidgetWrite(s) ==
    /\ ops[s].pc = "widgetWrite"
    /\ tables' = DbToggleTodo(tables, ops[s].todo.id, ops[s].todo.isCompleted, Absent)
    /\ ops' = [ops EXCEPT ![s] = Ended([@ EXCEPT !.wrote = TRUE], "done", todos)]
    /\ UNCHANGED <<clock, storeOps, failed, overlapped>>
    /\ UNCHANGED todoCache
    /\ UNCHANGED notTodoVars
    /\ UNCHANGED <<notif>>
    /\ UNCHANGED nonStoreVars

\* either storage call rejects: the handler's catch logs it
WidgetFail(s) ==
    /\ ops[s].pc \in {"widgetRead", "widgetWrite"}
    /\ ops' = [ops EXCEPT ![s] = Ended(@, "done", todos)]
    /\ failed' = TRUE
    /\ UNCHANGED <<clock, tables, storeOps, overlapped>>
    /\ UNCHANGED todoCache
    /\ UNCHANGED notTodoVars
    /\ UNCHANGED <<notif>>
    /\ UNCHANGED nonStoreVars

(***************************************************************************)
(* Habit store (store/useHabitStore.ts).  The month and date log lists     *)
(* and todayLogs are left out.                                             *)
(***************************************************************************)
HabitKinds == {"createHabit", "archiveHabit", "updateHabit"}
LogKinds == {"logHabit", "updateLog", "deleteLog"}
notHabitVars == <<todos, todosLoaded, notif>>

\* `l.value || 1` and `log.value || 0` on a value that may be NULL
ValueOrOne(v) == IF v = 0 \/ v = NoValue THEN 1 ELSE v
ValueOrZero(v) == IF v = NoValue THEN 0 ELSE v
Min(a, b) == IF a <= b THEN a ELSE b
Max(a, b) == IF a >= b THEN a ELSE b

\* getHabits: SELECT * FROM habits WHERE archived = 0
DbGetHabits(T) == SeqById({DecHabit(r) : r \in {x \in T.habits : x.archived = 0}})
DbAddHabit(T, h) == [T EXCEPT !.habits = @ \cup {EncHabit(h)}]
\* deleteHabit: UPDATE habits SET archived = 1
DbArchiveHabit(T, id) ==
    [T EXCEPT !.habits = {IF r.id = id THEN [r EXCEPT !.archived = 1] ELSE r : r \in @}]
DbUpdateHabit(T, h) ==
    [T EXCEPT !.habits = {IF r.id = h.id THEN EncHabit(h) ELSE r : r \in @}]

\* getHabitLogs: ORDER BY timestamp DESC (later day first, later log first)
RECURSIVE SeqByTimeDesc(_)
SeqByTimeDesc(S) ==
    IF S = {} THEN <<>>
    ELSE LET r == CHOOSE x \in S : \A y \in S : x.day > y.day \/ (x.day = y.day /\ x.id >= y.id)
         IN <<r>> \o SeqByTimeDesc(S \ {r})
DbGetHabitLogs(T, h) == SeqByTimeDesc({l \in T.logs : l.habitId = h})
DbAddHabitLog(T, l) == [T EXCEPT !.logs = @ \cup {EncLog(l)}]
DbUpdateHabitLog(T, l) ==
    [T EXCEPT !.logs = {IF r.id = l.id THEN [r EXCEPT !.value = ValueOrNull(l.value)] ELSE r : r \in @}]
DbDeleteHabitLog(T, id) == [T EXCEPT !.logs = {r \in @ : r.id # id}]

\* fetchHabitLogs: the per-day totals of a log list
RECURSIVE SumValues(_)
SumValues(ls) == IF ls = <<>> THEN 0 ELSE ValueOrOne(Head(ls).value) + SumValues(Tail(ls))
TotalsOf(ls) ==
    [d \in Days |-> LET on == SelectSeq(ls, LAMBDA l : l.day = d)
                    IN [totalValue |-> SumValues(on), count |-> Len(on)]]

\* what storage holds for a habit on a day
StoredDayTotal(T, h, d) == TotalsOf(DbGetHabitLogs(T, h))[d].totalValue

HabitNames == {"walk"}
HabitTargets == {Absent, 2}
ReminderChanges == {EmptyStr, 7}
LogRequests == {1, 5}
LogEdits == {0, 1}
ActiveHabitIds == IdsOf(habits) \cup {r.id : r \in {x \in tables.habits : x.archived = 0}}

\* fetchHabits(force)
FetchHabits(s, force) ==
    /\ CanBegin(s)
    /\ Begin(s, [IdleOp EXCEPT !.kind = "fetchHabits", !.before = habits,
                               !.pc = IF habitsLoaded /\ ~force THEN "done" ELSE "fetchingHabits"])
    /\ UNCHANGED <<clock, tables, failed>>
    /\ UNCHANGED habitCache
    /\ UNCHANGED notHabitVars
    /\ UNCHANGED nonStoreVars

\* DB.getHabits resolves, in fetchHabits or at the end of createHabit / archiveHabit
FetchHabitsDone(s) ==
    /\ ops[s].pc = "fetchingHabits"
    /\ habits' = DbGetHabits(tables)
    /\ habitsLoaded' = TRUE
    /\ ops' = [ops EXCEPT ![s] = Ended(ops[s], "done", habits')]
    /\ UNCHANGED <<clock, tables, storeOps, failed, overlapped, curLogs, curTotals>>
    /\ UNCHANGED notHabitVars
    /\ UNCHANGED nonStoreVars

\* DB.getHabits rejects: fetchHabits catches
FetchHabitsFail(s) ==
    /\ ops[s].pc = "fetchingHabits"
    /\ ops' = [ops EXCEPT ![s] = Ended(ops[s], "done", habits)]
    /\ failed' = TRUE
    /\ UNCHANGED <<clock, tables, storeOps, overlapped>>
    /\ UNCHANGED habitCache
    /\ UNCHANGED notHabitVars
    /\ UNCHANGED nonStoreVars

\* fetchHabitLogs(habitId), as the detail screen calls it on mount
FetchHabitLogs(s, h) ==
    /\ CanBegin(s)
    /\ Begin(s, [IdleOp EXCEPT !.kind = "fetchHabitLogs", !.pc = "fetchingLogs",
                               !.before = <<curLogs, curTotals>>,
                               !.log = [NoLog EXCEPT !.habitId = h]])
    /\ UNCHANGED <<clock, tables, failed>>
    /\ UNCHANGED habitCache
    /\ UNCHANGED notHabitVars
    /\ UNCHANGED nonStoreVars

FetchHabitLogsDone(s) ==
    /\ ops[s].pc = "fetchingLogs"
    /\ curLogs' = DbGetHabitLogs(tables, ops[s].log.habitId)
    /\ curTotals' = TotalsOf(curLogs')
    /\ ops' = [ops EXCEPT ![s] = Ended(ops[s], "done", <<curLogs', curTotals'>>)]
    /\ UNCHANGED <<clock, tables, storeOps, failed, overlapped, habits, habitsLoaded>>
    /\ UNCHANGED notHabitVars
    /\ UNCHANGED nonStoreVars

FetchHabitLogsFail(s) ==
    /\ ops[s].pc = "fetchingLogs"
    /\ ops' = [ops EXCEPT ![s] = Ended(ops[s], "done", <<curLogs, curTotals>>)]
    /\ failed' = TRUE
    /\ UNCHANGED <<clock, tables, storeOps, overlapped>>
    /\ UNCHANGED habitCache
    /\ UNCHANGED notHabitVars
    /\ UNCHANGED nonStoreVars

\* clearCurrentHabitData(): synchronous, under whatever calls are in progress
ClearCurrentHabitData ==
    /\ curLogs # <<>> \/ curTotals # NoTotals
    /\ curLogs' = <<>>
    /\ curTotals' = NoTotals
    /\ ops' = [u \in Slots |-> IF Busy(u) THEN [ops[u] EXCEPT !.alone = FALSE, !.solo = FALSE]
                                ELSE ops[u]]
    /\ UNCHANGED <<clock, tables, storeOps, failed, overlapped, habits, habitsLoaded>>
    /\ UNCHANGED notHabitVars
    /\ UNCHANGED nonStoreVars

\* the reminders createHabit / updateHabit schedule for a habit with a reminder
\* time: the one-time catch-up when the time is still ahead today, then one
\* repeating reminder for a daily habit or one per selected weekday
OneTime == [type |-> "habit_onetime", weekday |-> Absent]
Repeating(day) == [type |-> "habit", weekday |-> day]
PlanFor(h, later) ==
    IF ~Truthy(h.reminderTime) THEN <<>>
    ELSE (IF later THEN <<OneTime>> ELSE <<>>)
         \o (IF h.frequency = "daily" THEN <<Repeating(Absent)>>
             ELSE IF h.frequency = "specific_days" /\ ArrTruthy(h.frequencyDays)
             THEN [i \in 1..Len(h.frequencyDays.items) |-> Repeating(h.frequencyDays.items[i])]
             ELSE <<>>)

\* `if (habit.notificationIds) for (const nid of habit.notificationIds)`
IdsToCancel(h) == IF ArrTruthy(h.notificationIds) THEN h.notificationIds.items ELSE <<>>

\* where a habit call stands: the cancel loop, then the schedule calls, then the write
NextHabitStep_ScheduleFirst(op) ==
    IF op.plan # <<>> THEN "scheduling"
    ELSE IF op.left # <<>> THEN "cancelling"
    ELSE "writing"
NextHabitStep(op) ==
    IF op.left # <<>> THEN "cancelling"
    ELSE IF op.plan # <<>> THEN "scheduling"
    ELSE "writing"

BeginHabitOp(s, op) == Begin(s, [op EXCEPT !.pc = NextHabitStep(op)])

\* what the add-habit form passes: frequency, frequencyDays, reminder
HabitSchedules ==
    { [frequency |-> "daily", frequencyDays |-> Arr(<<>>), reminderTime |-> Absent],
      [frequency |-> "specific_days", frequencyDays |-> Arr(<<3>>), reminderTime |-> 8] }
\* the partial habits passed to updateHabit (a field left out is Absent / NullArr)
HabitChanges ==
    { [reminderTime |-> r, frequencyDays |-> NullArr] : r \in ReminderChanges }
    \cup { [reminderTime |-> Absent, frequencyDays |-> Arr(<<1, 3>>)] }

\* the inputs that involve no call to the scheduler
QuietSchedules == {sch \in HabitSchedules : ~Truthy(sch.reminderTime)}
QuietChanges == {ch \in HabitChanges : ~Truthy(ch.reminderTime)}

\* createHabit, up to its first await
CreateHabit(s, name, target, sch) ==
    /\ CanBegin(s)
    /\ \E later \in IF Truthy(sch.reminderTime) THEN BOOLEAN ELSE {FALSE} :
         LET h == [id |-> clock, name |-> name, archived |-> FALSE,
                   targetValue |-> TargetOrOne(target),
                   reminderTime |-> sch.reminderTime,
                   frequency |-> sch.frequency, frequencyDays |-> sch.frequencyDays,
                   notificationIds |-> Arr(<<>>)]
         IN BeginHabitOp(s, [IdleOp EXCEPT !.kind = "createHabit", !.before = habits,
                                           !.habit = h, !.plan = PlanFor(h, later)])
    /\ clock' = clock + 1
    /\ UNCHANGED <<tables, failed>>
    /\ UNCHANGED habitCache
    /\ UNCHANGED notHabitVars
    /\ UNCHANGED nonStoreVars

\* archiveHabit, up to its first await
ArchiveHabit(s, id) ==
    /\ CanBegin(s)
    /\ LET ids == IF HasId(habits, id) THEN IdsToCancel(FindById(habits, id)) ELSE <<>>
       IN BeginHabitOp(s, [IdleOp EXCEPT !.kind = "archiveHabit", !.before = habits,
                                         !.habit = [NoHabit EXCEPT !.id = id],
                                         !.left = ids, !.oldIds = ids])
    /\ UNCHANGED <<clock, tables, failed>>
    /\ UNCHANGED habitCache
    /\ UNCHANGED notHabitVars
    /\ UNCHANGED nonStoreVars

\* `{ ...existingHabit, ...habitChanges }`
MergeHabit(h, ch) ==
    [h EXCEPT !.reminderTime = IF ch.reminderTime # Absent THEN ch.reminderTime ELSE @,
              !.frequencyDays = IF ArrTruthy(ch.frequencyDays) THEN ch.frequencyDays ELSE @]
\* `habitChanges.reminderTime !== undefined && habitChanges.reminderTime !== existingHabit.reminderTime`
HabitReminderChanged(h, ch) == ch.reminderTime # Absent /\ ch.reminderTime # h.reminderTime

\* updateHabit(habitChanges), up to its first await
UpdateHabit(s, id, ch) ==
    /\ CanBegin(s)
    /\ IF HasId(habits, id)
       THEN LET existingHabit == FindById(habits, id)
                updatedHabit == MergeHabit(existingHabit, ch)
                op == [IdleOp EXCEPT !.kind = "updateHabit", !.before = habits, !.hlist = habits,
                                     !.habit = updatedHabit]
            IN IF HabitReminderChanged(existingHabit, ch)
               THEN \E later \in IF Truthy(updatedHabit.reminderTime) THEN BOOLEAN ELSE {FALSE} :
                      BeginHabitOp(s, [op EXCEPT !.changed = TRUE,
                                                 !.habit.notificationIds = Arr(<<>>),
                                                 !.left = IdsToCancel(existingHabit),
                                                 !.oldIds = IdsToCancel(existingHabit),
                                                 !.plan = PlanFor(updatedHabit, later)])
               ELSE BeginHabitOp(s, op)
       ELSE Begin(s, [IdleOp EXCEPT !.kind = "updateHabit", !.pc = "done"])
    /\ UNCHANGED <<clock, tables, failed>>
    /\ UNCHANGED habitCache
    /\ UNCHANGED notHabitVars
    /\ UNCHANGED nonStoreVars

\* Notifications.cancelScheduledNotificationAsync(id) of the platform: it
\* resolves with the id no longer scheduled (an id that is not scheduled is
\* left so), or it rejects
CancelScheduledNotificationAsync(N, id) ==
    { [N |-> [N EXCEPT !.live = @ \ {id}], rejected |-> FALSE],
      [N |-> N, rejected |-> TRUE] }

\* cancelNotification(id): the outcomes of the call; a rejection of the
\* platform call is caught and logged
CancelNotification_NoCatch(N, id) ==
    {[N |-> o.N, raised |-> o.rejected] : o \in CancelScheduledNotificationAsync(N, id)}
CancelNotification(N, id) ==
    {[N |-> o.N, raised |-> FALSE] : o \in CancelScheduledNotificationAsync(N, id)}

\* `await NotificationService.cancelNotification(nid)` of the cancel loop returns
HabitCancel(s) ==
    /\ ops[s].pc = "cancelling"
    /\ LET op == ops[s]
           nid == Head(op.left)
           nx == [op EXCEPT !.left = Tail(@),
                            !.events = Append(@, [e |-> "cancel", ids |-> <<nid>>])]
       IN \E o \in CancelNotification(notif, nid) :
             /\ notif' = o.N
             /\ ops' = [ops EXCEPT ![s] = IF o.raised THEN Ended(nx, "threw", habits)
                                          ELSE [nx EXCEPT !.pc = NextHabitStep(nx)]]
    /\ UNCHANGED <<clock, tables, storeOps, failed, overlapped>>
    /\ UNCHANGED habitCache
    /\ UNCHANGED todoCache
    /\ UNCHANGED nonStoreVars

\* a schedule call returns: a new id, pushed onto notificationIds, or '' after an error
HabitSchedule(s) ==
    /\ ops[s].pc = "scheduling"
    /\ \E ok \in BOOLEAN :
         LET op == ops[s]
             r == Head(op.plan)
             nid == IF ok THEN notif.next ELSE EmptyStr
             nx == [op EXCEPT !.plan = Tail(@),
                              !.habit.notificationIds.items = IF Truthy(nid) THEN Append(@, nid) ELSE @,
                              !.events = Append(@, [e |-> "schedule", ids |-> <<nid>>])]
         IN /\ ok => notif.next <= MaxNotifs
            /\ notif' = IF ok
                        THEN [next |-> notif.next + 1, live |-> notif.live \cup {nid},
                              issued |-> notif.issued \cup
                                         {[id |-> nid, habit |-> op.habit.id, type |-> r.type]}]
                        ELSE notif
            /\ ops' = [ops EXCEPT ![s] = [nx EXCEPT !.pc = NextHabitStep(nx)]]
    /\ UNCHANGED <<clock, tables, storeOps, failed, overlapped>>
    /\ UNCHANGED habitCache
    /\ UNCHANGED todoCache
    /\ UNCHANGED nonStoreVars

\* the notification service on its own: a reminder is scheduled, a one-time
\* reminder fires and is gone from the schedule, cancelNotification is called
\* with any id, scheduled or not
NotifSchedule ==
    /\ notif.next <= MaxNotifs
    /\ notif' = [notif EXCEPT !.next = @ + 1, !.live = @ \cup {notif.next}]
    /\ UNCHANGED <<clock, tables, ops, storeOps, failed, overlapped>>
    /\ UNCHANGED todoCache
    /\ UNCHANGED habitCache
    /\ UNCHANGED nonStoreVars

NotifFire(id) ==
    /\ id \in notif.live
    /\ notif' = [notif EXCEPT !.live = @ \ {id}]
    /\ UNCHANGED <<clock, tables, ops, storeOps, failed, overlapped>>
    /\ UNCHANGED todoCache
    /\ UNCHANGED habitCache
    /\ UNCHANGED nonStoreVars

NotifIds == 1..(MaxNotifs + 1)

NotifCancel(id) ==
    /\ storeOps < MaxStoreOps
    /\ storeOps' = storeOps + 1
    /\ \E o \in CancelNotification(notif, id) :
          /\ notif' = o.N
          /\ ops' = [ops EXCEPT ![1] =
                       [IdleOp EXCEPT !.kind = "cancelNotification",
                                      !.pc = IF o.raised THEN "threw" ELSE "done",
                                      !.events = Append(ops[1].events, [e |-> "cancel", ids |-> <<id>>])]]
    /\ UNCHANGED <<clock, tables, failed, overlapped>>
    /\ UNCHANGED todoCache
    /\ UNCHANGED habitCache
    /\ UNCHANGED nonStoreVars

NextNotifications ==
    \/ NotifSchedule
    \/ \E id \in NotifIds : NotifFire(id)
    \/ \E id \in NotifIds : NotifCancel(id)

\* the habit write
DbHabitWrite(op, T) ==
    CASE op.kind = "createHabit" -> DbAddHabit(T, op.habit)
      [] op.kind = "archiveHabit" -> DbArchiveHabit(T, op.habit.id)
      [] OTHER -> DbUpdateHabit(T, op.habit)

\* the call to storage as the call's history records it
WriteEvent(op) == [e |-> "write", ids |-> IdsToCancel(op.habit)]

\* the habit write resolves: updateHabit then sets the list it read at its
\* start, createHabit and archiveHabit await fetchHabits(true)
HabitWriteOk(s) ==
    /\ ops[s].pc = "writing"
    /\ ops[s].kind \in HabitKinds
    /\ tables' = DbHabitWrite(ops[s], tables)
    /\ LET w == [ops[s] EXCEPT !.wrote = TRUE, !.events = Append(@, WriteEvent(ops[s]))] IN
       IF ops[s].kind = "updateHabit"
       THEN /\ habits' = MapById(ops[s].hlist, ops[s].habit.id, ops[s].habit)
            /\ ops' = [ops EXCEPT ![s] = Ended(w, "done", habits')]
       ELSE /\ habits' = habits
            /\ ops' = [ops EXCEPT ![s] = [w EXCEPT !.pc = "fetchingHabits"]]
    /\ UNCHANGED <<clock, storeOps, failed, overlapped, habitsLoaded, curLogs, curTotals>>
    /\ UNCHANGED notHabitVars
    /\ UNCHANGED nonStoreVars

\* the habit write rejects: none of the three catches
HabitWriteFail(s) ==
    /\ ops[s].pc = "writing"
    /\ ops[s].kind \in HabitKinds
    /\ ops' = [ops EXCEPT ![s] = Ended([ops[s] EXCEPT !.events = Append(@, WriteEvent(ops[s]))],
                                       "threw", habits)]
    /\ failed' = TRUE
    /\ UNCHANGED <<clock, tables, storeOps, overlapped>>
    /\ UNCHANGED habitCache
    /\ UNCHANGED notHabitVars
    /\ UNCHANGED nonStoreVars

\* logHabit / updateLog / deleteLog: the optimistic set of currentHabitLogs ...
ApplyLogOp(op, logs) ==
    CASE op.kind = "logHabit" -> Append(logs, op.log)
      [] op.kind = "updateLog" -> MapById(logs, op.log.id, op.log)
      [] OTHER -> FilterById(logs, op.log.id)

\* ... and of currentHabitDailyTotals
ApplyLogTotals(op, totals) ==
    LET d == op.log.day IN
    CASE op.kind = "logHabit" ->
            [totals EXCEPT ![d] = [totalValue |-> @.totalValue + op.log.value, count |-> @.count + 1]]
      [] op.kind = "updateLog" ->
            [totals EXCEPT ![d].totalValue = @ + (ValueOrZero(op.log.value) - ValueOrZero(op.oldLog.value))]
      [] OTHER ->
            [totals EXCEPT ![d] = [totalValue |-> @.totalValue - ValueOrOne(op.oldLog.value),
                                   count |-> Max(0, @.count - 1)]]

\* the durable write of a log operation
DbLogWrite(op, T) ==
    CASE op.kind = "logHabit" -> DbAddHabitLog(T, op.log)
      [] op.kind = "updateLog" -> DbUpdateHabitLog(T, op.log)
      [] OTHER -> DbDeleteHabitLog(T, op.log.id)

StartLogOp(s, op) ==
    /\ Begin(s, [op EXCEPT !.pc = "writing"])
    /\ curLogs' = ApplyLogOp(op, curLogs)
    /\ curTotals' = ApplyLogTotals(op, curTotals)

\* logHabit(habitId, value, note, dateISO), up to `await DB.addHabitLog(newLog)`
LogHabit(s, h, value, d) ==
    /\ CanBegin(s)
    /\ LET target == IF HasId(habits, h) THEN TargetOrOne(FindById(habits, h).targetValue) ELSE 1
           currentTotal == curTotals[d].totalValue
           adjustedValue == Min(ValueOrOne(value), Max(0, target - currentTotal))
           rows == {r \in tables.habits : r.id = h}
           op == [IdleOp EXCEPT !.kind = "logHabit", !.before = <<curLogs, curTotals>>,
                                !.req = value, !.known = (rows # {}),
                                !.target = IF rows # {} THEN (CHOOSE r \in rows : TRUE).targetValue ELSE 0,
                                !.dayTotal = StoredDayTotal(tables, h, d),
                                !.log = [id |-> clock, habitId |-> h, day |-> d, value |-> adjustedValue]]
       IN IF currentTotal >= target
          THEN /\ Begin(s, Ended(op, "rejected", <<curLogs, curTotals>>))
               /\ UNCHANGED <<clock, curLogs, curTotals>>
          ELSE /\ StartLogOp(s, op)
               /\ clock' = clock + 1
    /\ UNCHANGED <<tables, failed, habits, habitsLoaded>>
    /\ UNCHANGED notHabitVars
    /\ UNCHANGED nonStoreVars

\* updateLog({...editingLog, value}), up to `await DB.updateHabitLog(log)`
UpdateLog(s, id, value) ==
    /\ CanBegin(s)
    /\ HasId(curLogs, id)
    /\ LET o == FindById(curLogs, id) IN
         StartLogOp(s, [IdleOp EXCEPT !.kind = "updateLog", !.before = <<curLogs, curTotals>>,
                                      !.oldLog = o, !.log = [o EXCEPT !.value = value]])
    /\ UNCHANGED <<clock, tables, failed, habits, habitsLoaded>>
    /\ UNCHANGED notHabitVars
    /\ UNCHANGED nonStoreVars

\* deleteLog(id, habitId), up to `await DB.deleteHabitLog(id)`
DeleteLog(s, id) ==
    /\ CanBegin(s)
    /\ HasId(curLogs, id)
    /\ LET o == FindById(curLogs, id) IN
         StartLogOp(s, [IdleOp EXCEPT !.kind = "deleteLog", !.before = <<curLogs, curTotals>>,
                                      !.oldLog = o, !.log = o])
    /\ UNCHANGED <<clock, tables, failed, habits, habitsLoaded>>
    /\ UNCHANGED notHabitVars
    /\ UNCHANGED nonStoreVars

\* the log write resolves: the call returns, its refetch waits for the interactions to end
LogWriteOk(s) ==
    /\ ops[s].pc = "writing"
    /\ ops[s].kind \in LogKinds
    /\ tables' = DbLogWrite(ops[s], tables)
    /\ ops' = [ops EXCEPT ![s] =
                 [Ended([ops[s] EXCEPT !.wrote = TRUE, !.persisted = ValueOrNull(ops[s].log.value)],
                        "deferred", <<curLogs, curTotals>>)
                  EXCEPT !.log = [NoLog EXCEPT !.habitId = ops[s].log.habitId]]]
    /\ UNCHANGED <<clock, storeOps, failed, overlapped>>
    /\ UNCHANGED habitCache
    /\ UNCHANGED notHabitVars
    /\ UNCHANGED nonStoreVars

\* the log write rejects: no catch, the error leaves the call
LogWriteFail(s) ==
    /\ ops[s].pc = "writing"
    /\ ops[s].kind \in LogKinds
    /\ ops' = [ops EXCEPT ![s] = Ended(ops[s], "threw", <<curLogs, curTotals>>)]
    /\ failed' = TRUE
    /\ UNCHANGED <<clock, tables, storeOps, overlapped>>
    /\ UNCHANGED habitCache
    /\ UNCHANGED notHabitVars
    /\ UNCHANGED nonStoreVars

\* InteractionManager runs the refetch: fetchHabitLogs(habitId) and fetchHabits(true)
DeferredRefetch(s) ==
    /\ ops[s].pc = "deferred"
    /\ curLogs' = DbGetHabitLogs(tables, ops[s].log.habitId)
    /\ curTotals' = TotalsOf(curLogs')
    /\ habits' = DbGetHabits(tables)
    /\ habitsLoaded' = TRUE
    /\ ops' = [ops EXCEPT ![s].pc = "done", ![s].log = NoLog]
    /\ UNCHANGED <<clock, tables, storeOps, failed, overlapped>>
    /\ UNCHANGED notHabitVars
    /\ UNCHANGED nonStoreVars

\* the refetch's reads reject: every error is swallowed
DeferredRefetchFails(s) ==
    /\ ops[s].pc = "deferred"
    /\ ops' = [ops EXCEPT ![s].pc = "done", ![s].log = NoLog]
    /\ failed' = TRUE
    /\ UNCHANGED <<clock, tables, storeOps, overlapped>>
    /\ UNCHANGED habitCache
    /\ UNCHANGED notHabitVars
    /\ UNCHANGED nonStoreVars

NextStore ==
    \/ \E s \in Slots, in \in TodoInputs : AddTodo(s, in)
    \/ \E s \in Slots, id \in KnownTodoIds, in \in TodoInputs : UpdateTodo(s, id, in)
    \/ \E s \in Slots, id \in KnownTodoIds, b \in BOOLEAN : ToggleTodo(s, id, b)
    \/ \E s \in Slots, id \in KnownTodoIds : DeleteTodo(s, id)
    \/ \E s \in Slots : TodoNotifyDone(s)
    \/ \E s \in Slots : TodoWriteOk(s)
    \/ \E s \in Slots : TodoWriteFail(s)
    \/ \E s \in Slots, force \in BOOLEAN : FetchTodos(s, force)
    \/ \E s \in Slots : FetchTodosDone(s)
    \/ \E s \in Slots : FetchTodosFail(s)
    \/ \E s \in Slots, id \in KnownTodoIds : WidgetToggleTodo(s, id)
    \/ \E s \in Slots : WidgetRead(s)
    \/ \E s \in Slots : WidgetWrite(s)
    \/ \E s \in Slots : WidgetFail(s)
    \/ \E s \in Slots, force \in BOOLEAN : FetchHabits(s, force)
    \/ \E s \in Slots : FetchHabitsDone(s)
    \/ \E s \in Slots : FetchHabitsFail(s)
    \/ \E s \in Slots, h \in ActiveHabitIds : FetchHabitLogs(s, h)
    \/ \E s \in Slots : FetchHabitLogsDone(s)
    \/ \E s \in Slots : FetchHabitLogsFail(s)
    \/ ClearCurrentHabitData
    \/ \E s \in Slots, name \in HabitNames, target \in HabitTargets, sch \in QuietSchedules :
          CreateHabit(s, name, target, sch)
    \/ \E s \in Slots, id \in ActiveHabitIds : ArchiveHabit(s, id)
    \/ \E s \in Slots, id \in ActiveHabitIds, ch \in QuietChanges : UpdateHabit(s, id, ch)
    \/ \E s \in Slots : HabitWriteOk(s)
    \/ \E s \in Slots : HabitWriteFail(s)
    \/ \E s \in Slots, h \in ActiveHabitIds, v \in LogRequests, d \in {Today} : LogHabit(s, h, v, d)
    \/ \E s \in Slots, id \in IdsOf(curLogs), v \in LogEdits : UpdateLog(s, id, v)
    \/ \E s \in Slots, id \in IdsOf(curLogs) : DeleteLog(s, id)
    \/ \E s \in Slots : LogWriteOk(s)
    \/ \E s \in Slots : LogWriteFail(s)
    \/ \E s \in Slots : DeferredRefetch(s)
    \/ \E s \in Slots : DeferredRefetchFails(s)

\* the habit list and its reminders: the habit calls with every input, the
\* steps of their cancel loop and schedule calls, and fetchHabits
NextReminders ==
    \/ \E s \in Slots, force \in BOOLEAN : FetchHabits(s, force)
    \/ \E s \in Slots : FetchHabitsDone(s)
    \/ \E s \in Slots : FetchHabitsFail(s)
    \/ \E s \in Slots, name \in HabitNames, target \in HabitTargets, sch \in HabitSchedules :
          CreateHabit(s, name, target, sch)
    \/ \E s \in Slots, id \in ActiveHabitIds : ArchiveHabit(s, id)
    \/ \E s \in Slots, id \in ActiveHabitIds, ch \in HabitChanges : UpdateHabit(s, id, ch)
    \/ \E s \in Slots : HabitCancel(s)
    \/ \E s \in Slots : HabitSchedule(s)
    \/ \E s \in Slots : HabitWriteOk(s)
    \/ \E s \in Slots : HabitWriteFail(s)

\* the stores as the application starts: empty caches over the rows of earlier sessions
StoreStartWith(H, N) ==
    /\ variant = "tx"
    /\ tables = [habits |-> {EncHabit(h) : h \in H},
                 logs |-> {EncLog(l) : l \in SampleLogs},
                 todos |-> {EncTodo(t) : t \in SampleTodos},
                 cats |-> SampleCats]
    /\ tx = [active |-> FALSE, snap |-> EmptyTables]
    /\ exported = [present |-> FALSE, from |-> EmptyTables, file |-> NoFile]
    /\ imp = IdleImp
    /\ lastRead = NoRead
    /\ imports = 0
    /\ clock = FirstClock
    /\ todos = <<>>
    /\ todosLoaded = FALSE
    /\ notif = N
    /\ ops = [s \in Slots |-> IdleOp]
    /\ storeOps = 0
    /\ failed = FALSE
    /\ overlapped = FALSE
    /\ habits = <<>>
    /\ habitsLoaded = FALSE
    /\ curLogs = <<>>
    /\ curTotals = NoTotals

StoreStart == StoreStartWith(SampleHabits, NoNotifs)

\* a habit of an earlier session with a reminder on one weekday, and the
\* scheduler still holding that reminder
RemindingHabit ==
    [id |-> 4, name |-> "swim", archived |-> FALSE, targetValue |-> 1, reminderTime |-> 8,
     frequency |-> "specific_days", frequencyDays |-> Arr(<<3>>), notificationIds |-> Arr(<<1>>)]
HeldNotifs == [next |-> 2, live |-> {1}, issued |-> {[id |-> 1, habit |-> 4, type |-> "habit"]}]
UpdateHabitStart == StoreStartWith(SampleHabits \cup {RemindingHabit}, HeldNotifs)

\* updateHabit on the loaded habit list, calls overlapping
NextUpdateHabit ==
    \/ \E s \in Slots, force \in BOOLEAN : FetchHabits(s, force)
    \/ \E s \in Slots : FetchHabitsDone(s)
    \/ \E s \in Slots : FetchHabitsFail(s)
    \/ \E s \in Slots, id \in ActiveHabitIds, ch \in HabitChanges : UpdateHabit(s, id, ch)
    \/ \E s \in Slots : HabitCancel(s)
    \/ \E s \in Slots : HabitSchedule(s)
    \/ \E s \in Slots : HabitWriteOk(s)
    \/ \E s \in Slots : HabitWriteFail(s)

\* no store activity
StoreAtRest ==
    /\ clock = FirstClock
    /\ todos = <<>>
    /\ todosLoaded = FALSE
    /\ notif = NoNotifs
    /\ ops = [s \in Slots |-> IdleOp]
    /\ storeOps = 0
    /\ failed = FALSE
    /\ overlapped = FALSE
    /\ habits = <<>>
    /\ habitsLoaded = FALSE
    /\ curLogs = <<>>
    /\ curTotals = NoTotals

(***************************************************************************)
(* Delivery filter (App.tsx, Notifications.setNotificationHandler).        *)
(* Times are milliseconds, as Date.now() gives them.                       *)
(***************************************************************************)
JustCreatedWindow == 15000
StaleAfter == 5 * 60 * 1000
\* `undefined` for an hour or a minute (0 is an hour)
NoTime == -1

Suppressed == [shouldShowAlert |-> FALSE, shouldPlaySound |-> FALSE, shouldSetBadge |-> FALSE]
Shown == [shouldShowAlert |-> TRUE, shouldPlaySound |-> TRUE, shouldSetBadge |-> FALSE]

\* `data.createdAt` set, `createdDiff < 15000 && data.type === 'habit'`
JustCreated(n) ==
    /\ Truthy(n.data.createdAt)
    /\ n.now - n.data.createdAt < JustCreatedWindow
    /\ n.data.type = "habit"

\* `diff > 5 * 60 * 1000`
IsStale_AtLeast(diff) == diff >= StaleAfter
IsStale(diff) == diff > StaleAfter

\* now.getHours() * 60 + now.getMinutes()
NowTotal(now) == (now \div 60000) % (24 * 60)

\* the calendar branch: `diffMinutes < -1` (early) or `diffMinutes > 5` (late)
OffTime_LateOnly(n) ==
    /\ n.trigger.hour # NoTime /\ n.trigger.minute # NoTime
    /\ NowTotal(n.now) - (n.trigger.hour * 60 + n.trigger.minute) > 5
OffTime(n) ==
    /\ n.trigger.hour # NoTime /\ n.trigger.minute # NoTime
    /\ LET diffMinutes == NowTotal(n.now) - (n.trigger.hour * 60 + n.trigger.minute)
       IN diffMinutes < -1 \/ diffMinutes > 5

HandleNotification(n) ==
    IF JustCreated(n) THEN Suppressed
    ELSE IF n.trigger.kind = "timestamp" /\ IsStale(n.now - n.trigger.value) THEN Suppressed
    ELSE IF n.trigger.kind = "calendar" /\ OffTime(n) THEN Suppressed
    ELSE Shown

\* the notifications delivered: at 10:03 or two minutes after midnight; with
\* no trigger, a timestamp trigger so many milliseconds ago, or a calendar
\* trigger so many minutes of the day ago; with or without createdAt in the data
Nows == {603 * 60000, 2 * 60000}
Delays == {0 - 120000, 0, 240000, 300000, 300001, 360000}
MinuteDelays == {0 - 2, 0 - 1, 0, 5, 6}
CreatedAgo == {14999, 15000}
NoTrigger == [kind |-> "none", value |-> 0, hour |-> NoTime, minute |-> NoTime]
Triggers(now) ==
    {NoTrigger}
    \cup {[NoTrigger EXCEPT !.kind = "timestamp", !.value = now - d] : d \in Delays}
    \cup {[NoTrigger EXCEPT !.kind = "calendar"]}
    \cup {[NoTrigger EXCEPT !.kind = "calendar",
                            !.hour = ((NowTotal(now) - m + 24 * 60) % (24 * 60)) \div 60,
                            !.minute = ((NowTotal(now) - m + 24 * 60) % (24 * 60)) % 60]
             : m \in MinuteDelays}
\* the `data` of the content the notification service schedules: its
\* schedule functions build the content from title and body and take no
\* data parameter, the `{ type: ... }` the stores pass as a last argument is
\* dropped, so `content.data || {}` has neither createdAt nor type
ScheduledData == [createdAt |-> Absent, type |-> "none"]

\* origin "other": any notification; origin "habit", "habit_onetime" and
\* "todo": a reminder the stores scheduled `age` milliseconds before it fires,
\* repeating, one-time catch-up and todo reminder
Deliveries ==
    UNION {[now : {now}, trigger : Triggers(now),
            data : [createdAt : {Absent} \cup {now - a : a \in CreatedAgo}, type : {"habit", "todo"}],
            origin : {"other"}, age : {0}]
           \cup [now : {now}, trigger : {t \in Triggers(now) : t.kind = "calendar" /\ t.hour # NoTime},
                 data : {ScheduledData}, origin : {"habit"}, age : CreatedAgo]
           \cup [now : {now}, trigger : {t \in Triggers(now) : t.kind = "timestamp"},
                 data : {ScheduledData}, origin : {"habit_onetime", "todo"}, age : CreatedAgo]
           : now \in Nows}

NoResult == [shouldShowAlert |-> FALSE, shouldPlaySound |-> FALSE, shouldSetBadge |-> TRUE]
NoDelivery == [n |-> [now |-> 0, trigger |-> NoTrigger, data |-> [createdAt |-> Absent, type |-> "todo"],
                      origin |-> "other", age |-> 0],
               handled |-> FALSE, result |-> NoResult]
DeliveryAtRest == delivery = NoDelivery

\* the platform hands a notification to the handler
Deliver(n) ==
    /\ delivery.handled \/ delivery = NoDelivery
    /\ delivery' = [n |-> n, handled |-> FALSE, result |-> NoResult]
    /\ UNCHANGED nonDeliveryVars

\* handleNotification returns
Handle ==
    /\ ~delivery.handled /\ delivery # NoDelivery
    /\ delivery' = [delivery EXCEPT !.handled = TRUE, !.result = HandleNotification(delivery.n)]
    /\ UNCHANGED nonDeliveryVars

NextDelivery ==
    \/ \E n \in Deliveries : Deliver(n)
    \/ Handle

(***************************************************************************)
(* Claims on the stores                                                    *)
(***************************************************************************)
\* what fetchTodos(true) would load now
ReloadTodos(T) == LET list == DbGetTodos(T) IN [i \in 1..Len(list) |-> Postponed(list[i])]

\* a cached object with '' read as null in its optional text fields
SameAsNull(list, fields) ==
    [i \in 1..Len(list) |->
        [f \in DOMAIN list[i] |-> IF f \in fields THEN OrNull(list[i][f]) ELSE list[i][f]]]

\* C6: when no call is in progress, after calls that ran one at a time and
\* met no durable failure, a loaded todo list and a loaded active-habit list
\* equal, field by field ('' and null taken as equal), what a forced fetch
\* reloads from storage
C6_ReloadEqualsCache ==
    (Quiescent /\ ~failed /\ ~overlapped) =>
        /\ todosLoaded =>
              SameAsNull(todos, {"dueDate", "reminderTime", "notificationId"}) = ReloadTodos(tables)
        /\ habitsLoaded => SameAsNull(habits, {"reminderTime"}) = DbGetHabits(tables)

\* C7: a todo mutation that ran alone on a loaded list and whose durable
\* write threw has re-thrown and left the cached list exactly (same
\* elements, same order) as it was before the call
C7_TodoRollbackExact ==
    \A s \in Slots :
        (ops[s].kind \in TodoKinds /\ ops[s].pc = "threw" /\ ops[s].alone /\ ops[s].warm)
        => ops[s].exact

\* C8: a habit-log mutation that ran alone and whose durable write threw has
\* re-thrown and left currentHabitLogs and currentHabitDailyTotals exactly
\* as they were before the call
C8_LogRollbackExact ==
    \A s \in Slots :
        (ops[s].kind \in LogKinds /\ ops[s].pc = "threw" /\ ops[s].alone) => ops[s].exact

\* whether the cache shows the value the call is writing
CacheHolds(op) ==
    CASE op.kind \in {"addTodo", "updateTodo", "toggleTodo"} ->
            \E i \in 1..Len(todos) : todos[i] = op.todo
      [] op.kind = "deleteTodo" -> ~HasId(todos, op.old.id)
      [] op.kind \in {"logHabit", "updateLog"} ->
            \E i \in 1..Len(curLogs) : curLogs[i] = op.log
      [] op.kind = "deleteLog" -> ~HasId(curLogs, op.log.id)
      [] op.kind = "updateHabit" -> \E i \in 1..Len(habits) : habits[i] = op.habit
      [] OTHER -> TRUE

\* C9: while the durable write of a mutation, updateHabit
\* included, is pending, the cache shows the new value, also after the
\* deferred refetch of an operation that had returned earlier has run
\* (no other call starts in between)
C9_CacheHoldsWhileWriting ==
    \A s \in Slots : (ops[s].pc = "writing" /\ ops[s].solo) => CacheHolds(ops[s])

\* C10: a logHabit that ran alone for a stored habit whose stored total of
\* the day was below its stored target has persisted
\* min(requested value, target - day total)
C10_ClampAgainstStoredTotal ==
    \A s \in Slots :
        (/\ ops[s].kind = "logHabit" /\ ops[s].wrote /\ ops[s].alone
         /\ ops[s].known /\ ops[s].dayTotal < ops[s].target)
        => ops[s].persisted = Min(ops[s].req, ops[s].target - ops[s].dayTotal)

\* C11: a logHabit called for a stored habit whose stored total of the day
\* had already reached its stored target was rejected with the domain error:
\* it issued no durable write and left the detail cache as it was
C11_RejectedAtTarget ==
    \A s \in Slots :
        (ops[s].kind = "logHabit" /\ ops[s].known /\ ops[s].dayTotal >= ops[s].target)
        => (ops[s].pc = "rejected" /\ ops[s].exact)

\* the sum of a habit's persisted log values on a day, NULL counted as nothing
PersistedSum(T, h, d) ==
    LET ls == SelectSeq(DbGetHabitLogs(T, h), LAMBDA l : l.day = d)
        RECURSIVE Sum(_)
        Sum(q) == IF q = <<>> THEN 0 ELSE ValueOrZero(Head(q).value) + Sum(Tail(q))
    IN Sum(ls)

\* C12: for every stored habit and every day, the sum of the habit's
\* persisted log values of that day never exceeds the habit's targetValue
C12_DayTotalWithinTarget ==
    \A r \in tables.habits : \A d \in Days : PersistedSum(tables, r.id, d) <= r.targetValue

\* the ids the schedule calls of a history returned, in order ('' left out)
RECURSIVE ScheduledIds(_)
ScheduledIds(ev) ==
    IF ev = <<>> THEN <<>>
    ELSE (IF Head(ev).e = "schedule" /\ Truthy(Head(ev).ids[1]) THEN Head(ev).ids ELSE <<>>)
         \o ScheduledIds(Tail(ev))
\* the ids cancelled before the k-th call of a history
CancelledBefore(ev, k) == {ev[i].ids[1] : i \in {j \in 1..(k - 1) : ev[j].e = "cancel"}}

\* C13: in an updateHabit call that found the reminder time changed, no
\* cancel follows a schedule call, nothing follows the durable write, every
\* id the habit held when the call read it has been cancelled before the
\* first schedule call and before the write, and the write carries exactly
\* the ids the schedule calls returned
C13_CancelScheduleWrite ==
    \A s \in Slots :
        (ops[s].kind = "updateHabit" /\ ops[s].changed) =>
            LET ev == ops[s].events IN
            /\ \A i, j \in 1..Len(ev) :
                  i < j => /\ ev[i].e # "write"
                           /\ ~(ev[i].e = "schedule" /\ ev[j].e = "cancel")
            /\ \A k \in 1..Len(ev) :
                  ev[k].e \in {"schedule", "write"} =>
                      \A i \in 1..Len(ops[s].oldIds) : ops[s].oldIds[i] \in CancelledBefore(ev, k)
            /\ \A k \in 1..Len(ev) :
                  ev[k].e = "write" => ev[k].ids = ScheduledIds(ev)

\* an updateHabit that cancelled an old reminder, scheduled a new one and wrote
C13_Witness ==
    \E s \in Slots :
        /\ ops[s].kind = "updateHabit" /\ ops[s].changed /\ ops[s].pc = "done"
        /\ \E i, j, k \in 1..Len(ops[s].events) :
              /\ i < j /\ j < k
              /\ ops[s].events[i].e = "cancel"
              /\ ops[s].events[j].e = "schedule" /\ Truthy(ops[s].events[j].ids[1])
              /\ ops[s].events[k].e = "write"

\* C14: an updateHabit that changes the weekdays of a habit with a reminder
\* and leaves the reminder time alone has, when its write resolves, cancelled
\* every reminder id the habit held, and the row it wrote holds none of them
\* (the ids then stored are those of reminders scheduled for the new weekdays)
C14_WeekdaysRescheduled ==
    [][\A s \in Slots :
          (/\ ops[s].kind = "updateHabit" /\ ops[s].pc = "writing" /\ ops'[s].pc = "done"
           /\ ~ops[s].changed
           /\ Truthy(ops[s].habit.reminderTime)
           /\ ops[s].habit.frequencyDays # FindById(ops[s].hlist, ops[s].habit.id).frequencyDays)
          => LET held == IdsToCancel(FindById(ops[s].hlist, ops[s].habit.id))
                 row == FindById(DbGetHabits(tables'), ops[s].habit.id)
             IN \A i \in 1..Len(held) :
                   /\ held[i] \notin notif'.live
                   /\ \A j \in 1..Len(IdsToCancel(row)) : IdsToCancel(row)[j] # held[i]]_vars

\* the stored notificationIds of a habit row
StoredIds(h) == {IdsToCancel(h)[i] : i \in 1..Len(IdsToCancel(h))}

\* C15: when no call is in progress, every id stored in a non-archived
\* habit's notificationIds was issued by the scheduler and is not cancelled,
\* every uncancelled repeating reminder issued for a habit is among the ids
\* stored in that habit's row, and a specific_days habit with a reminder
\* stores as many repeating ids as it has weekdays
C15_StoredIdsMatchScheduler ==
    Quiescent =>
        LET active == {DecHabit(r) : r \in {x \in tables.habits : x.archived = 0}}
            rows == {DecHabit(r) : r \in tables.habits}
        IN /\ \A h \in active : \A id \in StoredIds(h) :
                 id \in notif.live /\ \E n \in notif.issued : n.id = id
           /\ \A n \in notif.issued :
                 (n.type = "habit" /\ n.id \in notif.live)
                 => \E h \in rows : h.id = n.habit /\ n.id \in StoredIds(h)
           /\ \A h \in active :
                 (h.frequency = "specific_days" /\ Truthy(h.reminderTime) /\ ArrTruthy(h.frequencyDays))
                 => Cardinality({n \in notif.issued : n.type = "habit" /\ n.id \in StoredIds(h)})
                       = Len(h.frequencyDays.items)

\* C16: archival is for good: a habit row that storage holds as archived is,
\* after any step of the store, still held and still archived, and the logs
\* of the habit are all still stored
C16_ArchivedStaysArchived ==
    [][\A r \in tables.habits :
          r.archived = 1 =>
              /\ \E x \in tables'.habits : x.id = r.id /\ x.archived = 1
              /\ {l \in tables.logs : l.habitId = r.id} \subseteq tables'.logs]_vars

\* C17: when a fetchTodos that loads from storage returns (no storage call
\* having failed), every todo the cache held as incomplete, autoPostpone on
\* and due before today, and that storage holds with that due date, is due
\* today in the cached list and in storage; the rows that are completed or
\* not due before today are left as they were
C17_PostponedOnReload ==
    [][\A s \in Slots :
          (ops[s].kind = "fetchTodos" /\ ops[s].pc = "fetching" /\ ops'[s].pc = "done" /\ ~failed')
          => /\ \A i \in 1..Len(todos) :
                   (/\ NeedsPostpone(todos[i])
                    /\ \E r \in tables.todos :
                          r.id = todos[i].id /\ r.isCompleted = 0 /\ r.dueDate = todos[i].dueDate)
                   => /\ \E j \in 1..Len(todos') :
                            todos'[j].id = todos[i].id /\ todos'[j].dueDate = Today
                      /\ \E r \in tables'.todos : r.id = todos[i].id /\ r.dueDate = Today
             /\ \A r \in tables.todos :
                   (r.isCompleted = 1 \/ ~Truthy(r.dueDate) \/ r.dueDate >= Today)
                   => r \in tables'.todos]_vars

\* C18: every todo in storage and every todo in the cached list has
\* completedAt set if and only if it is completed
C18_CompletedAtIffCompleted ==
    /\ \A r \in tables.todos : (r.isCompleted = 1) <=> Truthy(r.completedAt)
    /\ \A i \in 1..Len(todos) : todos[i].isCompleted <=> Truthy(todos[i].completedAt)

\* C19: in every state of the schedule and for every id, scheduled, fired,
\* cancelled before or never issued, cancelNotification does not raise and
\* leaves every other id as it was, and calling it twice has the outcomes of
\* calling it once; no call made so far has raised
C19_CancelNeverRaises ==
    /\ \A s \in Slots : ops[s].kind = "cancelNotification" => ops[s].pc = "done"
    /\ \A id \in NotifIds :
          LET once == CancelNotification(notif, id)
              twice == UNION {CancelNotification(o.N, id) : o \in once}
          IN /\ \A o \in once :
                   /\ ~o.raised
                   /\ o.N.live \ {id} = notif.live \ {id}
                   /\ o.N.next = notif.next
             /\ twice = once

\* cancelNotification was called twice in a row with an id that had been
\* scheduled, then with an id never issued, and another id is still scheduled
C19_Witness ==
    LET ev == ops[1].events IN
    /\ ops[1].kind = "cancelNotification" /\ ops[1].pc = "done" /\ Len(ev) = 3
    /\ ev[1].ids = ev[2].ids /\ ev[1].ids[1] < notif.next /\ ev[1].ids[1] \notin notif.live
    /\ ev[3].ids[1] >= notif.next
    /\ notif.live # {}

\* C20: a handled notification with a timestamp trigger that the
\* just-created rule did not suppress is suppressed exactly when the time
\* since its scheduled time is more than five minutes, and is otherwise
\* shown with sound (no badge)
C20_StaleAfterFiveMinutes ==
    (/\ delivery.handled /\ delivery.n.trigger.kind = "timestamp" /\ ~JustCreated(delivery.n))
    => LET diff == delivery.n.now - delivery.n.trigger.value IN
       /\ (delivery.result = Suppressed) <=> (diff > 5 * 60 * 1000)
       /\ (diff <= 5 * 60 * 1000) => delivery.result = Shown

\* a notification of a habit created long ago, handled exactly five minutes
\* after its scheduled time, was shown with sound
C20_Witness ==
    /\ delivery.handled /\ delivery.n.trigger.kind = "timestamp"
    /\ Truthy(delivery.n.data.createdAt) /\ delivery.n.data.type = "habit"
    /\ delivery.n.now - delivery.n.trigger.value = 5 * 60 * 1000
    /\ delivery.result.shouldShowAlert /\ delivery.result.shouldPlaySound

\* C26: a handled notification with an hour/minute trigger that the
\* just-created rule did not suppress is suppressed exactly when the signed
\* minute offset, now's hour*60+minute minus the trigger's, is below -1 or
\* above 5, and is otherwise shown with sound
C26_OffsetWindow ==
    (/\ delivery.handled /\ delivery.n.trigger.kind = "calendar"
     /\ delivery.n.trigger.hour # NoTime /\ ~JustCreated(delivery.n))
    => LET n == delivery.n
           offset == ((n.now \div 60000) % 1440) - (n.trigger.hour * 60 + n.trigger.minute)
       IN /\ (delivery.result = Suppressed) <=> (offset < 0 - 1 \/ offset > 5)
          /\ ~(offset < 0 - 1 \/ offset > 5) => delivery.result = Shown

\* a reminder that fired one minute early was shown with sound
C26_Witness ==
    /\ delivery.handled /\ delivery.n.trigger.kind = "calendar" /\ delivery.n.trigger.hour # NoTime
    /\ ((delivery.n.now \div 60000) % 1440)
          - (delivery.n.trigger.hour * 60 + delivery.n.trigger.minute) = 0 - 1
    /\ delivery.result.shouldShowAlert /\ delivery.result.shouldPlaySound

\* C27: a repeating habit reminder the stores scheduled less than 15
\* seconds before it fires is suppressed, whatever its hour and minute; a
\* one-time catch-up reminder and a todo reminder are never suppressed by
\* the just-created rule
C27_JustScheduledSuppressed ==
    delivery.handled =>
        /\ (delivery.n.origin = "habit" /\ delivery.n.age < 15000) => delivery.result = Suppressed
        /\ delivery.n.origin \in {"habit_onetime", "todo"} => ~JustCreated(delivery.n)

\* C30: a handled hour/minute reminder that fires at most 5 minutes after
\* its time of day, midnight possibly in between, is shown
C30_ShownAcrossMidnight ==
    (/\ delivery.handled /\ delivery.n.trigger.kind = "calendar"
     /\ delivery.n.trigger.hour # NoTime /\ ~JustCreated(delivery.n))
    => LET n == delivery.n
           late == (((n.now \div 60000) % 1440) - (n.trigger.hour * 60 + n.trigger.minute) + 1440) % 1440
       IN late <= 5 => delivery.result = Shown

\* the stored notificationId of a todo
StoredNid(T, id) == (CHOOSE r \in T.todos : r.id = id).notificationId
\* an updateTodo whose durable write resolves in this step
UpdateTodoSucceeds(s) ==
    /\ ops[s].kind = "updateTodo" /\ ops[s].pc = "writing" /\ ops'[s].pc = "done"
    /\ \E r \in tables.todos : r.id = ops[s].todo.id
\* the call replaced the reminder because only the content changed
ContentRescheduled(op) ==
    /\ ~ReminderChanged(op) /\ op.todo.content # op.old.content
    /\ Truthy(op.old.notificationId) /\ Truthy(op.todo.reminderTime) /\ op.todo.reminderTime > Today
\* id is the id of a reminder scheduled after the one the todo held
NewlyScheduled(id, op) == Truthy(id) /\ id # op.old.notificationId /\ id < notif'.next

RECURSIVE PlainSum(_)
PlainSum(ls) == IF ls = <<>> THEN 0 ELSE ValueOrZero(Head(ls).value) + PlainSum(Tail(ls))

\* C23: for every date, the cached daily total is the sum of the values of
\* the cached logs of that date, and its count is their number
C23_TotalsMatchLogs ==
    \A d \in Days :
        LET on == SelectSeq(curLogs, LAMBDA l : l.day = d)
        IN curTotals[d] = [totalValue |-> PlainSum(on), count |-> Len(on)]

\* C28: when no call is in progress, and an updateTodo or toggleTodo whose
\* write threw has overlapped another whose write resolved, every cached todo
\* equals, as storage would keep it, the stored todo of the same id
C28_OverlapConverges ==
    \A s, u \in Slots :
        (/\ Quiescent /\ s # u
         /\ {ops[s].kind, ops[u].kind} \subseteq {"updateTodo", "toggleTodo"}
         /\ ~ops[s].alone /\ ~ops[u].alone
         /\ ops[s].pc = "threw" /\ ops[u].pc = "done" /\ ops[u].wrote)
        => \A i \in 1..Len(todos) : \A r \in tables.todos :
              r.id = todos[i].id => DecTodo(EncTodo(todos[i])) = DecTodo(r)

\* the two list fetches, with toggleTodo changing cache and storage between them
NextFetch ==
    \/ \E s \in Slots, force \in BOOLEAN : FetchTodos(s, force)
    \/ \E s \in Slots : FetchTodosDone(s)
    \/ \E s \in Slots : FetchTodosFail(s)
    \/ \E s \in Slots, force \in BOOLEAN : FetchHabits(s, force)
    \/ \E s \in Slots : FetchHabitsDone(s)
    \/ \E s \in Slots : FetchHabitsFail(s)
    \/ \E s \in Slots, id \in KnownTodoIds, b \in BOOLEAN : ToggleTodo(s, id, b)
    \/ \E s \in Slots : TodoWriteOk(s)
    \/ \E s \in Slots : TodoWriteFail(s)

\* C25: fetchTodos and fetchHabits called without force while the loaded flag
\* is set end at once, reading nothing and leaving cache, flag and storage as
\* they were; with force, or while the flag is not set, they read, and the
\* resolved read puts the stored list in the cache and sets the flag; a
\* rejected read leaves the cached list and the flag as they were
C25_FetchOnlyWhenNeeded ==
    [][\A s \in Slots :
          /\ \A force \in BOOLEAN :
                /\ FetchTodos(s, force) =>
                      IF todosLoaded /\ ~force
                      THEN ops'[s].pc = "done" /\ UNCHANGED <<todos, todosLoaded, tables>>
                      ELSE ops'[s].pc = "fetching"
                /\ FetchHabits(s, force) =>
                      IF habitsLoaded /\ ~force
                      THEN ops'[s].pc = "done" /\ UNCHANGED <<habits, habitsLoaded, tables>>
                      ELSE ops'[s].pc = "fetchingHabits"
          /\ FetchTodosDone(s) => todosLoaded' /\ todos' = DbGetTodos(tables')
          /\ FetchHabitsDone(s) => habitsLoaded' /\ habits' = DbGetHabits(tables')
          /\ FetchTodosFail(s) => UNCHANGED <<todos, todosLoaded>>
          /\ FetchHabitsFail(s) => UNCHANGED <<habits, habitsLoaded>>]_vars

\* one fetchTodos that started with the flag unset has ended leaving the cache
\* as it was, and another that started with the flag unset has loaded the list
C25_Witness ==
    /\ todosLoaded /\ failed
    /\ \E s, u \in Slots :
          /\ ops[s].kind = "fetchTodos" /\ ops[s].pc = "done" /\ ~ops[s].warm /\ ops[s].exact
          /\ ops[u].kind = "fetchTodos" /\ ops[u].pc = "done" /\ ~ops[u].warm /\ ~ops[u].exact

(***************************************************************************)
(* Habit statistics (calculateHabitStats).  A date is a day number, day d  *)
(* falling on weekday d % 7 (0 = Sunday).  An instant is counted in half   *)
(* days of local time: 2 * d is local midnight of day d.  The device's     *)
(* zone is behind UTC (-1), UTC (0) or ahead of UTC (1).                    *)
(***************************************************************************)
LastDay == 5
StatDays == 1..LastDay
TimeZones == {0 - 1, 0, 1}

\* new Date('yyyy-MM-dd'): midnight UTC of that date, as an instant of local time
ParseDate(d, tz) == 2 * d + tz
\* startOfDay(new Date()) on local day d
StartOfDay(d) == 2 * d
LocalDay(x) == x \div 2
\* date-fns getDay, isSameDay, subDays, differenceInDays (full days, toward zero)
GetDay(x) == LocalDay(x) % 7
IsSameDay(a, b) == LocalDay(a) = LocalDay(b)
SubDays(x, i) == x - 2 * i
DifferenceInDays(a, b) == IF a >= b THEN (a - b) \div 2 ELSE 0 - ((b - a) \div 2)

InSeq(x, q) == \E i \in 1..Len(q) : q[i] = x

IsScheduled(x, habit) ==
    CASE habit.frequency = "daily" -> TRUE
      [] habit.frequency = "specific_days" -> InSeq(GetDay(x), habit.frequencyDays)
      [] OTHER -> TRUE

IsStreakContinuous(prevDate, currDate, habit) ==
    LET diff == DifferenceInDays(currDate, prevDate) IN
    IF diff <= 0 THEN FALSE
    ELSE IF diff = 1 THEN TRUE
    ELSE \A i \in 1..(diff - 1) : ~IsScheduled(SubDays(currDate, i), habit)

IsStreakAlive(lastCompletedDate, today, habit) ==
    IF IsSameDay(lastCompletedDate, today) THEN TRUE
    ELSE LET diff == DifferenceInDays(today, lastCompletedDate) IN
         IF diff = 0 THEN TRUE
         ELSE \A i \in 1..(diff - 1) : ~IsScheduled(SubDays(today, i), habit)

\* logsByDate[d]: the sum of the values of the logs of day d
RECURSIVE SumOfLogs(_)
SumOfLogs(ls) ==
    IF ls = {} THEN 0 ELSE LET l == CHOOSE x \in ls : TRUE IN l.value + SumOfLogs(ls \ {l})
LogsByDate(logs, d) == SumOfLogs({l \in logs : l.day = d})

\* Object.keys(logsByDate).filter(total >= (habit.targetValue || 1)).sort()
RECURSIVE SortAsc(_)
SortAsc(S) ==
    IF S = {} THEN <<>>
    ELSE LET m == CHOOSE x \in S : \A y \in S : x <= y IN <<m>> \o SortAsc(S \ {m})
CompletedDates(habit, logs) ==
    SortAsc({d \in {l.day : l \in logs} : LogsByDate(logs, d) >= TargetOrOne(habit.targetValue)})

\* tempStreak after the loop has taken sortedDates[i]
RECURSIVE TempStreak(_, _, _, _)
TempStreak(dates, i, habit, tz) ==
    IF i = 1 THEN 1
    ELSE IF IsStreakContinuous(ParseDate(dates[i - 1], tz), ParseDate(dates[i], tz), habit)
    THEN TempStreak(dates, i - 1, habit, tz) + 1
    ELSE 1
MaxOf(S) == IF S = {} THEN 0 ELSE CHOOSE x \in S : \A y \in S : y <= x
\* runningStreak: counted back from sortedDates[i] until a pair is not continuous
RECURSIVE RunningStreak(_, _, _, _)
RunningStreak(dates, i, habit, tz) ==
    IF i > 1 /\ IsStreakContinuous(ParseDate(dates[i - 1], tz), ParseDate(dates[i], tz), habit)
    THEN RunningStreak(dates, i - 1, habit, tz) + 1
    ELSE 1

NoStats == [totalDays |-> 0, currentStreak |-> 0, bestStreak |-> 0]
CalculateHabitStats(habit, logs, todayDay, tz) ==
    LET sortedDates == CompletedDates(habit, logs)
        n == Len(sortedDates)
    IN IF habit.frequency \in {"daily", "specific_days"}
       THEN IF n = 0 THEN NoStats
            ELSE [totalDays |-> n,
                  bestStreak |-> MaxOf({TempStreak(sortedDates, i, habit, tz) : i \in 1..n}),
                  currentStreak |->
                      IF IsStreakAlive(ParseDate(sortedDates[n], tz), StartOfDay(todayDay), habit)
                      THEN RunningStreak(sortedDates, n, habit, tz) ELSE 0]
       ELSE [totalDays |-> n, currentStreak |-> 0, bestStreak |-> 0]

\* the habits, logs and days the statistics are computed for
StatHabits ==
    [frequency : {"daily"}, frequencyDays : {<<>>}, targetValue : {Absent, 2}]
    \cup [frequency : {"specific_days"}, frequencyDays : {<<1, 3, 5>>, <<2, 4>>, <<>>}, targetValue : {Absent, 2}]
    \cup [frequency : {"weekly"}, frequencyDays : {<<>>}, targetValue : {Absent}]
StatLogs == SUBSET [day : StatDays, value : {1, 2}]
StatCalls ==
    [habit : StatHabits, logs : StatLogs, today : LastDay..(LastDay + 2), tz : TimeZones,
     done : {FALSE}, result : {NoStats}]
NoStatsCall == [habit |-> [frequency |-> "weekly", frequencyDays |-> <<>>, targetValue |-> Absent],
                logs |-> {}, today |-> 0, tz |-> 0, done |-> FALSE, result |-> NoStats]
StatsAtRest == stats = NoStatsCall

\* the detail screen computes the statistics of the habit it shows
Calculate ==
    /\ ~stats.done
    /\ stats' = [stats EXCEPT !.done = TRUE,
                              !.result = CalculateHabitStats(stats.habit, stats.logs, stats.today, stats.tz)]
    /\ UNCHANGED nonStatsVars

NextStats == Calculate

\* a day of the calendar on which the habit is scheduled
ScheduledDay(d, habit) == habit.frequency = "daily" \/ InSeq(d % 7, habit.frequencyDays)
\* no scheduled day lies strictly between day a and the later day b
NoneMissed(a, b, habit) == \A d \in (a + 1)..(b - 1) : ~ScheduledDay(d, habit)
\* the length of the run of completed dates that ends at dates[i]
RECURSIVE RunEndingAt(_, _, _)
RunEndingAt(dates, i, habit) ==
    IF i > 1 /\ NoneMissed(dates[i - 1], dates[i], habit)
    THEN RunEndingAt(dates, i - 1, habit) + 1
    ELSE 1
StreakHabit == stats.done /\ stats.habit.frequency \in {"daily", "specific_days"}

\* C21: for a daily or specific_days habit, bestStreak is the length of the
\* longest run of completed dates, in ascending order, in which no scheduled
\* day lies strictly between two consecutive dates
C21_BestStreakIsLongestRun ==
    StreakHabit =>
        LET dates == CompletedDates(stats.habit, stats.logs) IN
        stats.result.bestStreak = MaxOf({RunEndingAt(dates, i, stats.habit) : i \in 1..Len(dates)})

\* C22: for a daily or specific_days habit, currentStreak is the length of
\* the run ending at the most recent completed date when no scheduled day
\* lies strictly between that date and today, and 0 otherwise; it never
\* exceeds bestStreak
C22_CurrentStreakIfAlive ==
    StreakHabit =>
        LET dates == CompletedDates(stats.habit, stats.logs)
            n == Len(dates)
        IN /\ stats.result.currentStreak =
                 IF n > 0 /\ NoneMissed(dates[n], stats.today, stats.habit)
                 THEN RunEndingAt(dates, n, stats.habit) ELSE 0
           /\ stats.result.currentStreak <= stats.result.bestStreak

(***************************************************************************)
(* Specifications                                                          *)
(***************************************************************************)
InitDB == DbAtRest /\ BackupAtRest /\ StoreAtRest /\ DeliveryAtRest /\ StatsAtRest
SpecDB == InitDB /\ [][NextDB]_vars

InitBackup == DbAtRest /\ BackupStart /\ StoreAtRest /\ DeliveryAtRest /\ StatsAtRest
SpecBackup == InitBackup /\ [][NextBackup]_vars

InitStore == DbAtRest /\ StoreStart /\ DeliveryAtRest /\ StatsAtRest
SpecStore == InitStore /\ [][NextStore]_vars

SpecReminders == InitStore /\ [][NextReminders]_vars

SpecNotifications == InitStore /\ [][NextNotifications]_vars

SpecTodoReminders == InitStore /\ [][NextTodoReminders]_vars

SpecFetch == InitStore /\ [][NextFetch]_vars

SpecInit == InitDB /\ [][NextInit]_vars

InitStats == DbAtRest /\ BackupAtRest /\ StoreAtRest /\ DeliveryAtRest /\ stats \in StatCalls
SpecStats == InitStats /\ [][NextStats]_vars

SpecDelivery == InitStore /\ [][NextDelivery]_vars

InitUpdateHabit == DbAtRest /\ UpdateHabitStart /\ DeliveryAtRest /\ StatsAtRest
SpecUpdateHabit == InitUpdateHabit /\ [][NextUpdateHabit]_vars

====
